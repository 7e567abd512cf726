---------------------------- MODULE EscrowProofs ----------------------------
(***************************************************************************)
(* Proofs about Escrow, for any users, bots, buy-in, bankroll and number   *)
(* of requests:                                                            *)
(*   EscrowTypeCorrect           TypeOK                                    *)
(*   EscrowBacksClaims           ClaimsBacked                              *)
(*   WealthMovesOnlyAtSettlement WealthMovesAtSettlementOnly               *)
(*   OpenTableCanBeClosed        TableCanBeClosed                          *)
(* The invariant is about who may have chips: a stack belongs to an entry  *)
(* with an ACTIVE row, a bet to a hand, a request id to one buy-in, and who *)
(* was paid by a clean-up has no row.  One lemma per action follows.       *)
(***************************************************************************)
EXTENDS Escrow, SumProofs

(* The cases in which no chip is made or lost: in each of the other five   *)
(* the code pays or charges twice, or drops a stack or a pot.              *)
NothingLost == Cases \subseteq {"late_rebuy", "seat_reclaimed"}

(* Bets lie on the table while a hand is played only. *)
NoHandNoBets == ~Live(state) => \A p \in Players : state.bets[p] = 0

(* A closed table has nothing on it. *)
ClosedIsEmpty == table = "CLOSED" => ~Live(state) /\ \A p \in Players : state.stacks[p] = 0

(* A join that is sent again is the join of somebody who has a seat. *)
RetriesAreSeated ==
  table = "OPEN" =>
    \A u \in Users : pending[u] # None /\ pending[u].kind = "join" => rows[u] = "ACTIVE"

(* The id of the next request has not been used. *)
UsedIdsAreOld == \A k \in ledger : k.kind # "cleanup" => k.id <= asked[k.user]

(* Who has a stack entry has an ACTIVE row; without an entry, no chips. *)
StacksAreOwned ==
  \A p \in Players : /\ p \in state.entries => rows[p] = "ACTIVE"
                     /\ p \notin state.entries => state.stacks[p] = 0

(* Who can still win the hand was dealt in, has a stack entry and a seat.  *)
InHandWithStack == Live(state) => state.in \subseteq state.entries \cap state.dealt \cap state.seats

(* Chips in a stack have a seat in the stored state. *)
StacksHaveSeats ==
  "late_rebuy" \notin Cases => \A p \in Players : state.stacks[p] # 0 => p \in state.seats

(* Chips in the pot are those of players dealt in, with a seat and a row.  *)
BetsHaveSeats ==
  "seat_reclaimed" \notin Cases /\ Live(state) =>
    \A p \in Players : state.bets[p] # 0 =>
      p \in state.dealt /\ p \in state.seats /\ rows[p] # "none"

(* Who was paid by a clean-up does not come back. *)
CleanedUpStayAway == \A u \in Users : Posted("cleanup", u, 0) => rows[u] # "ACTIVE"

(* The inductive invariant. *)
ChipsInv ==
  /\ TypeOK
  /\ ClaimsBacked
  /\ NoHandNoBets
  /\ ClosedIsEmpty
  /\ RetriesAreSeated
  /\ UsedIdsAreOld
  /\ StacksAreOwned
  /\ InHandWithStack
  /\ StacksHaveSeats
  /\ BetsHaveSeats
  /\ CleanedUpStayAway

(* What every step but a settlement does. *)
WealthKept == \A p \in Players : Wealth(p)' = Wealth(p)

----------------------------------------------------------------------------
(* Sums over the players of the table. *)
LEMMA PlayersAreFinite == IsFiniteSet(Players)
BY EscrowAssumption, FS_Union DEF Players

LEMMA TotalIsNat ==
  ASSUME NEW f \in [Players -> Nat]
  PROVE  Total(f) \in Nat
BY PlayersAreFinite, SumIsNat DEF Total

LEMMA TotalUpdate ==
  ASSUME NEW f \in [Players -> Nat], NEW p \in Players, NEW v \in Nat
  PROVE  Total([f EXCEPT ![p] = v]) = Total(f) - f[p] + v
<1>1. f \in [Players -> Int] /\ v \in Int
  OBVIOUS
<1> QED BY <1>1, PlayersAreFinite, SumUpdate DEF Total

LEMMA TotalAdds ==
  ASSUME NEW f \in [Players -> Nat], NEW g \in [Players -> Nat], NEW h \in [Players -> Nat],
         \A p \in Players : h[p] = f[p] + g[p]
  PROVE  Total(h) = Total(f) + Total(g)
<1>1. f \in [Players -> Int] /\ g \in [Players -> Int] /\ h \in [Players -> Int]
  OBVIOUS
<1> QED BY <1>1, PlayersAreFinite, SumAdds DEF Total

LEMMA TotalOfNone ==
  ASSUME NEW f \in [Players -> Nat], \A p \in Players : f[p] = 0
  PROVE  Total(f) = 0
<1>1. f \in [Players -> Int]
  OBVIOUS
<1> QED BY <1>1, PlayersAreFinite, SumOfZeros DEF Total

(* A chip goes from a stack to the bets: the same total, the same player. *)
LEMMA BetKeeps ==
  ASSUME ChipsInv, NEW p \in Players, Bet(p)
  PROVE  ChipsInv' /\ WealthKept
<1> USE DEF ChipsInv
<1>1. /\ Live(state) /\ p \in state.in /\ state.stacks[p] > 0
      /\ UNCHANGED <<table, rows, account, escrow, ledger, presence, pending, asked>>
  BY DEF Bet, clientVars
<1>2. /\ state' = [state EXCEPT !.stacks = [state.stacks EXCEPT ![p] = @ - 1],
                                !.bets = [state.bets EXCEPT ![p] = @ + 1]]
      /\ state.stacks \in [Players -> Nat] /\ state.bets \in [Players -> Nat]
  BY DEF Bet, TypeOK, State
<1>3. /\ state'.stacks = [state.stacks EXCEPT ![p] = @ - 1]
      /\ state'.bets = [state.bets EXCEPT ![p] = @ + 1]
      /\ state'.phase = state.phase /\ state'.in = state.in /\ state'.dealt = state.dealt
      /\ state'.entries = state.entries /\ state'.seats = state.seats
  BY <1>2 DEF TypeOK, State
<1>4. TypeOK'
  <2>1. /\ [state.stacks EXCEPT ![p] = @ - 1] \in [Players -> Nat]
        /\ [state.bets EXCEPT ![p] = @ + 1] \in [Players -> Nat]
    BY <1>1, <1>2
  <2>2. state' \in State
    BY <1>2, <2>1 DEF TypeOK, State
  <2> QED BY <1>1, <2>2 DEF TypeOK
<1>5. ClaimsBacked'
  <2>1. Total(state'.stacks) = Total(state.stacks) - state.stacks[p] + (state.stacks[p] - 1)
    <3>1. state.stacks[p] - 1 \in Nat
      BY <1>1, <1>2
    <3> QED BY <1>2, <1>3, <3>1, TotalUpdate
  <2>2. Total(state'.bets) = Total(state.bets) - state.bets[p] + (state.bets[p] + 1)
    BY <1>1, <1>2, <1>3, TotalUpdate
  <2>3. Total(state.bets) \in Nat /\ Total(state.stacks) \in Nat /\ state.stacks[p] \in Nat
        /\ state.bets[p] \in Nat
    BY <1>2, TotalIsNat
  <2> QED BY <1>1, <2>1, <2>2, <2>3 DEF ClaimsBacked, Pot
<1>6. (NoHandNoBets /\ ClosedIsEmpty /\ InHandWithStack)'
  BY <1>1, <1>3 DEF NoHandNoBets, ClosedIsEmpty, InHandWithStack, Live
<1>7. (RetriesAreSeated /\ UsedIdsAreOld /\ CleanedUpStayAway)'
  BY <1>1 DEF RetriesAreSeated, UsedIdsAreOld, CleanedUpStayAway, Posted
<1>8. StacksAreOwned'
  BY <1>1, <1>2, <1>3 DEF StacksAreOwned, InHandWithStack
<1>9. WealthKept
  BY <1>1, <1>2, <1>3 DEF WealthKept, Wealth, TypeOK
<1>10. (StacksHaveSeats /\ BetsHaveSeats)'
  <2>1. p \in state.dealt /\ p \in state.seats /\ rows[p] = "ACTIVE"
    BY <1>1 DEF InHandWithStack, StacksAreOwned
  <2>2. \A q \in Players : /\ state'.stacks[q] # 0 => state.stacks[q] # 0 \/ q = p
                           /\ state'.bets[q] # 0 => state.bets[q] # 0 \/ q = p
    BY <1>2, <1>3
  <2> QED BY <1>1, <1>3, <2>1, <2>2 DEF StacksHaveSeats, BetsHaveSeats
<1> QED BY <1>4, <1>5, <1>6, <1>7, <1>8, <1>9, <1>10

(* A fold moves no chip. *)
LEMMA FoldKeeps ==
  ASSUME ChipsInv, NEW p \in Players, Fold(p)
  PROVE  ChipsInv' /\ WealthKept
<1> USE DEF ChipsInv
<1>1. /\ Live(state) /\ state' = [state EXCEPT !.in = @ \ {p}]
      /\ UNCHANGED <<table, rows, account, escrow, ledger, presence, pending, asked>>
  BY DEF Fold, clientVars
<1>2. /\ state' \in State
      /\ state'.stacks = state.stacks /\ state'.bets = state.bets
      /\ state'.phase = state.phase /\ state'.in = state.in \ {p}
      /\ state'.dealt = state.dealt /\ state'.entries = state.entries
      /\ state'.seats = state.seats
  BY <1>1 DEF TypeOK, State
<1>3. TypeOK'
  BY <1>1, <1>2 DEF TypeOK
<1>4. (ClaimsBacked /\ NoHandNoBets /\ ClosedIsEmpty /\ InHandWithStack)'
  BY <1>1, <1>2 DEF ClaimsBacked, Pot, NoHandNoBets, ClosedIsEmpty, InHandWithStack, Live
<1>5. (RetriesAreSeated /\ UsedIdsAreOld /\ CleanedUpStayAway /\ StacksAreOwned)'
  BY <1>1, <1>2 DEF RetriesAreSeated, UsedIdsAreOld, CleanedUpStayAway, Posted, StacksAreOwned
<1>6. WealthKept
  BY <1>1, <1>2 DEF WealthKept, Wealth
<1>7. (StacksHaveSeats /\ BetsHaveSeats)'
  BY <1>1, <1>2 DEF StacksHaveSeats, BetsHaveSeats, Live
<1> QED BY <1>3, <1>4, <1>5, <1>6, <1>7

(* The pot goes to a stack of somebody with a seat and a row; wealth       *)
(* moves.                                                                  *)
LEMMA SettleKeeps ==
  ASSUME ChipsInv, Settle
  PROVE  ChipsInv' /\ Live(state) /\ state'.phase = "SETTLED"
<1> USE DEF ChipsInv
<1>1. PICK w \in state.in :
        /\ Live(state)
        /\ state' = [state EXCEPT !.phase = "SETTLED", !.entries = state.entries \cup {w},
             !.stacks = [state.stacks EXCEPT ![w] = @ + Pot(state)],
             !.bets = NoChips, !.dealt = {}, !.in = {}, !.potZeroed = FALSE]
  BY DEF Settle, TypeOK, State
<1>2. UNCHANGED <<table, rows, account, escrow, ledger, presence, pending, asked>>
  BY DEF Settle, clientVars
<1>3. /\ state.stacks \in [Players -> Nat] /\ state.bets \in [Players -> Nat]
      /\ w \in Players /\ w \in state.entries /\ w \in state.seats /\ rows[w] = "ACTIVE"
      /\ Pot(state) \in Nat
  BY <1>1, TotalIsNat DEF TypeOK, State, InHandWithStack, StacksAreOwned, Pot
<1>4. NoChips \in [Players -> Nat] /\ Total(NoChips) = 0
  BY TotalOfNone DEF NoChips
<1> DEFINE stacks == [state.stacks EXCEPT ![w] = @ + Pot(state)]
<1>5. stacks \in [Players -> Nat]
  BY <1>3
<1>6. /\ state'.stacks = stacks /\ state'.bets = NoChips
      /\ state'.phase = "SETTLED" /\ state'.in = {} /\ state'.dealt = {}
      /\ state'.entries = state.entries \cup {w} /\ state'.seats = state.seats
  BY <1>1 DEF TypeOK, State
<1>7. state' \in State
  BY <1>1, <1>3, <1>4, <1>5 DEF TypeOK, State, Phases
<1>8. TypeOK'
  BY <1>2, <1>7 DEF TypeOK
<1>9. ClaimsBacked'
  <2>1. Total(stacks) = Total(state.stacks) - state.stacks[w] + (state.stacks[w] + Pot(state))
    <3>1. state.stacks[w] + Pot(state) \in Nat
      BY <1>3
    <3> QED BY <1>3, <3>1, TotalUpdate
  <2>2. Total(state.stacks) \in Nat /\ state.stacks[w] \in Nat
    BY <1>3, TotalIsNat
  <2> HIDE DEF stacks
  <2>3. Total(stacks) = Total(state.stacks) + Pot(state)
    BY <1>3, <2>1, <2>2
  <2>4. table = "OPEN"
    BY <1>1 DEF ClosedIsEmpty, TypeOK
  <2>5. Pot(state)' = 0
    BY <1>4, <1>6 DEF Pot
  <2>6. escrow = Total(state.stacks) + Pot(state)
    BY <2>4 DEF ClaimsBacked
  <2> QED BY <1>2, <1>3, <1>6, <2>2, <2>3, <2>4, <2>5, <2>6 DEF ClaimsBacked
<1>10. (NoHandNoBets /\ ClosedIsEmpty /\ InHandWithStack)'
  BY <1>1, <1>2, <1>6 DEF NoHandNoBets, ClosedIsEmpty, InHandWithStack, Live, NoChips, TypeOK
<1>11. (RetriesAreSeated /\ UsedIdsAreOld /\ CleanedUpStayAway)'
  BY <1>2 DEF RetriesAreSeated, UsedIdsAreOld, CleanedUpStayAway, Posted
<1>12. StacksAreOwned'
  BY <1>2, <1>3, <1>6 DEF StacksAreOwned
<1>13. (StacksHaveSeats /\ BetsHaveSeats)'
  BY <1>3, <1>6 DEF StacksHaveSeats, BetsHaveSeats, Live
<1> QED BY <1>1, <1>6, <1>8, <1>9, <1>10, <1>11, <1>12, <1>13

(* What is left of a state when some leave it. *)
LEMMA WithoutFields ==
  ASSUME NEW s \in State, NEW gone
  PROVE  /\ Without(s, gone) \in State
         /\ Without(s, gone).stacks = [p \in Players |-> IF p \in gone THEN 0 ELSE s.stacks[p]]
         /\ Without(s, gone).entries = s.entries \ gone
         /\ Without(s, gone).seats = s.seats \ gone
         /\ Without(s, gone).phase = s.phase
         /\ Without(s, gone).bets = s.bets
         /\ Without(s, gone).dealt = s.dealt
         /\ Without(s, gone).in = s.in
         /\ Without(s, gone).potZeroed = s.potZeroed
<1> DEFINE stacks == [p \in Players |-> IF p \in gone THEN 0 ELSE s.stacks[p]]
<1>1. Without(s, gone) = [s EXCEPT !.seats = s.seats \ gone, !.entries = s.entries \ gone,
                                   !.stacks = stacks]
  BY DEF Without, State
<1>2. s.stacks \in [Players -> Nat] /\ s.seats \subseteq Players /\ s.entries \subseteq Players
  BY DEF State
<1>3. stacks \in [Players -> Nat]
  BY <1>2
<1>4. stacks = [p \in Players |-> IF p \in gone THEN 0 ELSE s.stacks[p]]
  OBVIOUS
<1> HIDE DEF stacks
<1>5. Without(s, gone) \in State
  BY <1>1, <1>2, <1>3 DEF State
<1>6. /\ Without(s, gone).stacks = stacks
      /\ Without(s, gone).entries = s.entries \ gone
      /\ Without(s, gone).seats = s.seats \ gone
      /\ Without(s, gone).phase = s.phase
      /\ Without(s, gone).bets = s.bets
      /\ Without(s, gone).dealt = s.dealt
      /\ Without(s, gone).in = s.in
      /\ Without(s, gone).potZeroed = s.potZeroed
  BY <1>1 DEF State
<1> QED BY <1>4, <1>5, <1>6

(* Everybody with chips is dealt in, so nothing is dropped with the old    *)
(* state, and the blinds are on the table.                                 *)
LEMMA DealKeeps ==
  ASSUME ChipsInv, NothingLost, Deal
  PROVE  ChipsInv' /\ WealthKept
<1> USE DEF ChipsInv
<1> DEFINE c == Carried(state, Ready)
<1>1. PICK blinds \in kSubset(2, Ready) :
        state' = [c EXCEPT
         !.phase = "LIVE", !.seats = Ready, !.dealt = Ready, !.in = Ready,
         !.stacks = [p \in Players |-> c.stacks[p] - IF p \in blinds THEN 1 ELSE 0],
         !.bets = [p \in Players |-> IF p \in blinds THEN 1 ELSE 0],
         !.left = {}, !.waiting = c.waiting \ Ready, !.potZeroed = FALSE]
  BY DEF Deal, Carried, Without, TypeOK, State
<1>2. /\ table = "OPEN" /\ ~Live(state)
      /\ UNCHANGED <<table, rows, account, escrow, ledger, presence, pending, asked>>
      /\ Absent = {}
  BY DEF Deal, clientVars, NothingLost
<1>3. blinds \subseteq Ready
  BY <1>1 DEF kSubset
<1>4. \A p \in Ready : p \in state.entries /\ state.stacks[p] > 0 /\ rows[p] = "ACTIVE" /\ p \in Players
  BY DEF Ready, HasChips, Active
<1>5. /\ state \in State
      /\ state.stacks \in [Players -> Nat] /\ state.bets \in [Players -> Nat]
      /\ state.entries \subseteq Players
  BY DEF TypeOK, State
<1>6. \A p \in Players \ Ready : state.stacks[p] = 0
  <2> TAKE p \in Players \ Ready
  <2> SUFFICES ASSUME state.stacks[p] # 0 PROVE FALSE
    OBVIOUS
  <2>1. p \in state.entries /\ rows[p] = "ACTIVE"
    BY DEF StacksAreOwned
  <2>2. HasChips(p) /\ p \in Active(rows)
    BY <1>5, <2>1 DEF HasChips, Active
  <2> QED BY <1>2, <2>2 DEF Absent, Ready
<1>7. c \in State /\ c.stacks = state.stacks /\ c.entries \subseteq state.entries
      /\ Ready \subseteq c.entries
  <2>1. CASE state.phase = "SETTLED"
    BY <1>4, <1>5, <2>1 DEF Carried
  <2>2. CASE state.phase # "SETTLED"
    <3> DEFINE w == Without(state, Players \ Ready)
    <3>1. c = [w EXCEPT !.waiting = {}]
      BY <2>2 DEF Carried
    <3>2. /\ w \in State /\ w.entries = state.entries \ (Players \ Ready)
          /\ w.stacks = [p \in Players |-> IF p \in Players \ Ready THEN 0 ELSE state.stacks[p]]
      BY <1>5, WithoutFields
    <3>3. w.stacks = state.stacks
      BY <1>5, <1>6, <3>2
    <3> HIDE DEF w, c
    <3>4. c \in State /\ c.stacks = w.stacks /\ c.entries = w.entries
      BY <3>1, <3>2 DEF State
    <3> QED BY <1>4, <3>2, <3>3, <3>4
  <2> QED BY <2>1, <2>2
<1> DEFINE stacks == [p \in Players |-> state.stacks[p] - IF p \in blinds THEN 1 ELSE 0]
           bets == [p \in Players |-> IF p \in blinds THEN 1 ELSE 0]
<1> HIDE DEF c
<1>8. /\ stacks \in [Players -> Nat] /\ bets \in [Players -> Nat]
      /\ \A p \in Players : state.stacks[p] = stacks[p] + bets[p]
      /\ \A p \in Players : p \notin Ready => stacks[p] = 0
  BY <1>3, <1>4, <1>5, <1>6
<1>9. state' = [c EXCEPT
         !.phase = "LIVE", !.seats = Ready, !.dealt = Ready, !.in = Ready,
         !.stacks = stacks, !.bets = bets,
         !.left = {}, !.waiting = c.waiting \ Ready, !.potZeroed = FALSE]
  BY <1>1, <1>7
<1> HIDE DEF stacks, bets
<1>10. /\ state'.stacks = stacks /\ state'.bets = bets /\ state'.phase = "LIVE"
       /\ state'.entries = c.entries /\ state'.in = Ready /\ state'.dealt = Ready
       /\ state'.seats = Ready
  BY <1>7, <1>9 DEF State
<1>11. state' \in State
  BY <1>4, <1>7, <1>8, <1>9 DEF State, Phases
<1>12. TypeOK'
  BY <1>2, <1>11 DEF TypeOK
<1>13. ClaimsBacked'
  <2>1. Total(state.stacks) = Total(stacks) + Total(bets)
    BY <1>5, <1>8, TotalAdds
  <2>2. Total(state.bets) = 0 /\ Total(state.stacks) \in Nat
    BY <1>2, <1>5, TotalOfNone, TotalIsNat DEF NoHandNoBets
  <2> QED BY <1>2, <1>10, <2>1, <2>2 DEF ClaimsBacked, Pot
<1>14. (NoHandNoBets /\ ClosedIsEmpty /\ InHandWithStack)'
  BY <1>2, <1>7, <1>10 DEF NoHandNoBets, ClosedIsEmpty, InHandWithStack, Live
<1>15. (RetriesAreSeated /\ UsedIdsAreOld /\ CleanedUpStayAway)'
  BY <1>2 DEF RetriesAreSeated, UsedIdsAreOld, CleanedUpStayAway, Posted
<1>16. StacksAreOwned'
  BY <1>2, <1>7, <1>8, <1>10 DEF StacksAreOwned
<1>17. WealthKept
  <2>1. \A p \in Players : state.bets[p] = 0 /\ account[p] \in Int
    BY <1>2 DEF NoHandNoBets, TypeOK
  <2>2. \A p \in Players : stacks[p] \in Nat /\ bets[p] \in Nat
    BY <1>8
  <2> QED BY <1>2, <1>8, <1>10, <2>1, <2>2 DEF WealthKept, Wealth
<1>18. (StacksHaveSeats /\ BetsHaveSeats)'
  <2>1. \A p \in Players : bets[p] # 0 => p \in Ready
    BY <1>3 DEF bets
  <2> QED BY <1>2, <1>4, <1>8, <1>10, <2>1 DEF StacksHaveSeats, BetsHaveSeats
<1> QED BY <1>12, <1>13, <1>14, <1>15, <1>16, <1>17, <1>18

(* Coming and going moves no chip. *)
LEMMA MoveKeeps ==
  ASSUME ChipsInv, NEW u \in Users, Move(u)
  PROVE  ChipsInv' /\ WealthKept
<1> USE DEF ChipsInv
<1>1. UNCHANGED <<table, rows, state, account, escrow, ledger, asked>>
  BY DEF Move, Connect, Disconnect, GraceEnds
<1>2. /\ presence' \in [Users -> Presences]
      /\ pending' \in {pending, [pending EXCEPT ![u] = None]}
  BY DEF Move, Connect, Disconnect, GraceEnds, TypeOK, Presences
<1>3. TypeOK'
  BY <1>1, <1>2 DEF TypeOK
<1>4. RetriesAreSeated'
  BY <1>1, <1>2 DEF RetriesAreSeated, TypeOK
<1>5. (ClaimsBacked /\ NoHandNoBets /\ ClosedIsEmpty /\ InHandWithStack)'
  BY <1>1 DEF ClaimsBacked, Pot, NoHandNoBets, ClosedIsEmpty, InHandWithStack, Live
<1>6. (UsedIdsAreOld /\ CleanedUpStayAway /\ StacksAreOwned)'
  BY <1>1 DEF UsedIdsAreOld, CleanedUpStayAway, Posted, StacksAreOwned
<1>7. WealthKept
  BY <1>1 DEF WealthKept, Wealth
<1>8. (StacksHaveSeats /\ BetsHaveSeats)'
  BY <1>1 DEF StacksHaveSeats, BetsHaveSeats, Live
<1> QED BY <1>3, <1>4, <1>5, <1>6, <1>7, <1>8

(* What an answer leaves behind: a new request has a new id, and a request *)
(* that is kept is of the same kind.                                       *)
LEMMA AnsweredFacts ==
  ASSUME ChipsInv, NEW u \in Users, NEW kind \in {"join", "rebuy"},
         NEW id \in RequestIds(u, kind), Answered(u, kind, id)
  PROVE  /\ id \in 1..MaxRequests
         /\ presence' = presence
         /\ pending' \in [Users -> {None} \cup [kind: {"join", "rebuy"}, id: 1..MaxRequests]]
         /\ asked' \in [Users -> 0..MaxRequests]
         /\ id <= asked'[u] /\ \A v \in Users : asked[v] <= asked'[v]
         /\ \A v \in Users : v # u => pending'[v] = pending[v]
         /\ pending'[u] = None \/ pending'[u].kind = kind
         /\ pending[u] = None => id > asked[u]
         /\ pending[u] # None => pending[u].kind = kind
<1>0. /\ asked \in [Users -> 0..MaxRequests] /\ MaxRequests \in Nat
      /\ pending \in [Users -> {None} \cup [kind: {"join", "rebuy"}, id: 1..MaxRequests]]
  BY EscrowAssumption DEF ChipsInv, TypeOK
<1>1. CASE pending[u] = None
  <2>1. id = asked[u] + 1 /\ Total(asked) < MaxRequests
    BY <1>1 DEF RequestIds
  <2>2. asked \in [Users -> Nat] /\ IsFiniteSet(Users)
    BY <1>0, EscrowAssumption
  <2>3. asked[u] <= Total(asked) /\ Total(asked) \in Nat
    BY <2>2, SumIsNat DEF Total
  <2>4. id \in 1..MaxRequests /\ id > asked[u]
    BY <1>0, <2>1, <2>2, <2>3
  <2> QED BY <1>0, <1>1, <2>4 DEF Answered
<1>2. CASE pending[u] # None
  <2>1. pending[u].kind = kind /\ id = pending[u].id
    BY <1>2 DEF RequestIds
  <2>2. id \in 1..MaxRequests
    BY <1>0, <1>2, <2>1
  <2> QED BY <1>0, <1>2, <2>1, <2>2 DEF Answered
<1> QED BY <1>1, <1>2

(* Request ids only go up. *)
LEMMA IdsStayOld ==
  ASSUME ChipsInv, asked' \in [Users -> 0..MaxRequests],
         \A v \in Users : asked[v] <= asked'[v],
         \A k \in ledger' : k \in ledger \/ (k.kind # "cleanup" => k.id <= asked'[k.user])
  PROVE  UsedIdsAreOld'
<1>1. \A k \in ledger : k.user \in Users /\ k.id \in Nat
  BY EscrowAssumption DEF ChipsInv, TypeOK, Keys
<1>2. asked \in [Users -> Nat] /\ asked' \in [Users -> Nat]
  BY EscrowAssumption DEF ChipsInv, TypeOK
<1> QED BY <1>1, <1>2 DEF ChipsInv, UsedIdsAreOld

(* Giving the ACTIVE rows their seats touches nothing else. *)
LEMMA SeatedFields ==
  ASSUME NEW s \in State, NEW rs
  PROVE  /\ Seated(s, rs) \in State
         /\ Seated(s, rs).stacks = s.stacks
         /\ Seated(s, rs).entries = s.entries
         /\ Seated(s, rs).seats = s.seats \cup Active(rs)
         /\ Seated(s, rs).phase = s.phase
         /\ Seated(s, rs).bets = s.bets
         /\ Seated(s, rs).dealt = s.dealt
         /\ Seated(s, rs).in = s.in
         /\ Seated(s, rs).waiting = s.waiting
         /\ Seated(s, rs).potZeroed = s.potZeroed
<1>1. Active(rs) \subseteq Players
  BY DEF Active
<1> QED BY <1>1 DEF Seated, State

(* A join of somebody seated moves no chip. *)
LEMMA RejoinKeeps ==
  ASSUME ChipsInv, NEW u \in Users, Rejoin(u)
  PROVE  ChipsInv' /\ WealthKept
<1> USE DEF ChipsInv
<1>1. PICK id \in RequestIds(u, "join") : Answered(u, "join", id)
  BY DEF Rejoin
<1>2. /\ rows[u] = "ACTIVE"
      /\ state' = Seated(state, rows)
      /\ UNCHANGED <<table, rows, account, escrow, ledger>>
  BY DEF Rejoin
<1>3. /\ presence' = presence
      /\ pending' \in [Users -> {None} \cup [kind: {"join", "rebuy"}, id: 1..MaxRequests]]
      /\ asked' \in [Users -> 0..MaxRequests]
      /\ \A v \in Users : asked[v] <= asked'[v]
      /\ \A v \in Users : v # u => pending'[v] = pending[v]
  BY <1>1, AnsweredFacts
<1>4. /\ state' \in State
      /\ state'.stacks = state.stacks /\ state'.bets = state.bets
      /\ state'.phase = state.phase /\ state'.in = state.in
      /\ state'.dealt = state.dealt /\ state'.entries = state.entries
      /\ state.seats \subseteq state'.seats
  BY <1>2, SeatedFields DEF TypeOK
<1>5. TypeOK'
  BY <1>2, <1>3, <1>4 DEF TypeOK
<1>6. (ClaimsBacked /\ NoHandNoBets /\ ClosedIsEmpty /\ InHandWithStack)'
  BY <1>2, <1>4 DEF ClaimsBacked, Pot, NoHandNoBets, ClosedIsEmpty, InHandWithStack, Live
<1>7. (RetriesAreSeated /\ CleanedUpStayAway /\ StacksAreOwned)'
  BY <1>2, <1>3, <1>4 DEF RetriesAreSeated, CleanedUpStayAway, Posted, StacksAreOwned
<1>8. UsedIdsAreOld'
  BY <1>2, <1>3, IdsStayOld
<1>9. WealthKept
  BY <1>2, <1>4 DEF WealthKept, Wealth
<1>10. (StacksHaveSeats /\ BetsHaveSeats)'
  BY <1>2, <1>4 DEF StacksHaveSeats, BetsHaveSeats, Live
<1> QED BY <1>5, <1>6, <1>7, <1>8, <1>9, <1>10

(* A rebuy whose result is stored moves no chip. *)
LEMMA RebuyAgainKeeps ==
  ASSUME ChipsInv, NEW u \in Users, RebuyAgain(u)
  PROVE  ChipsInv' /\ WealthKept
<1> USE DEF ChipsInv
<1>1. PICK id \in RequestIds(u, "rebuy") : Answered(u, "rebuy", id)
  BY DEF RebuyAgain
<1>2. UNCHANGED <<table, rows, state, account, escrow, ledger>>
  BY DEF RebuyAgain
<1>3. /\ presence' = presence
      /\ pending' \in [Users -> {None} \cup [kind: {"join", "rebuy"}, id: 1..MaxRequests]]
      /\ asked' \in [Users -> 0..MaxRequests]
      /\ \A v \in Users : asked[v] <= asked'[v]
      /\ \A v \in Users : v # u => pending'[v] = pending[v]
      /\ pending'[u] = None \/ pending'[u].kind = "rebuy"
  BY <1>1, AnsweredFacts
<1>5. TypeOK'
  BY <1>2, <1>3 DEF TypeOK
<1>6. (ClaimsBacked /\ NoHandNoBets /\ ClosedIsEmpty /\ InHandWithStack)'
  BY <1>2 DEF ClaimsBacked, Pot, NoHandNoBets, ClosedIsEmpty, InHandWithStack, Live
<1>7. (RetriesAreSeated /\ CleanedUpStayAway /\ StacksAreOwned)'
  BY <1>2, <1>3 DEF RetriesAreSeated, CleanedUpStayAway, Posted, StacksAreOwned
<1>8. UsedIdsAreOld'
  BY <1>2, <1>3, IdsStayOld
<1>9. WealthKept
  BY <1>2 DEF WealthKept, Wealth
<1>10. (StacksHaveSeats /\ BetsHaveSeats)'
  BY <1>2 DEF StacksHaveSeats, BetsHaveSeats, Live
<1> QED BY <1>5, <1>6, <1>7, <1>8, <1>9, <1>10

(* What a buy-in does when its key is new: everybody who sits down pays. *)
LEMMA BuyInFacts ==
  ASSUME ChipsInv, NEW kind \in {"join", "rebuy"}, NEW u \in Users, NEW id \in 1..MaxRequests,
         NEW seeded \in SUBSET Bots, BuyInPosted(kind, u, id, seeded), ~Posted(kind, u, id)
  PROVE  /\ account' \in [Players -> Int] /\ \A v \in Users : account'[v] >= 0
         /\ \A p \in Players : account'[p] = account[p] - IF p \in seeded \cup {u} THEN BuyIn ELSE 0
         /\ escrow' = escrow + BuyIn * Cardinality(seeded \cup {u})
         /\ ledger' = ledger \cup {Key(kind, u, id, BuyIn)}
         /\ Key(kind, u, id, BuyIn) \in Keys
<1> USE DEF ChipsInv
<1>1. /\ CanPay(u)
      /\ account' = [p \in Players |-> account[p] - IF p \in seeded \cup {u} THEN BuyIn ELSE 0]
      /\ escrow' = escrow + BuyIn * Cardinality(seeded \cup {u})
      /\ ledger' = ledger \cup {Key(kind, u, id, BuyIn)}
  BY DEF BuyInPosted
<1>2. account \in [Players -> Int] /\ (\A v \in Users : account[v] >= 0) /\ BuyIn \in Nat
  BY EscrowAssumption DEF TypeOK
<1>3. account' \in [Players -> Int] /\ \A v \in Users : account'[v] >= 0
  <2>1. \A v \in Users : v \in Players /\ v \notin Bots
    BY EscrowAssumption DEF Players
  <2>2. account' \in [Players -> Int]
    BY <1>1, <1>2
  <2> QED BY <1>1, <1>2, <2>1, <2>2 DEF CanPay
<1>4. Key(kind, u, id, BuyIn) \in Keys
  BY <1>2, EscrowAssumption DEF Key, Keys
<1> QED BY <1>1, <1>3, <1>4

(* Everybody who sits down is charged what his stack gets. The join is     *)
(* never one posted before: a client that sends it again still has its     *)
(* seat (RetriesAreSeated), so it is charged (UsedIdsAreOld).              *)
LEMMA JoinKeeps ==
  ASSUME ChipsInv, NothingLost, NEW u \in Users, Join(u)
  PROVE  ChipsInv' /\ WealthKept
<1> USE DEF ChipsInv
<1> DEFINE sits == {u} \cup Seeded
<1>1. PICK id \in RequestIds(u, "join"), displaced \in Displaced(u) :
        LET rs == [p \in Players |-> IF p \in sits THEN "ACTIVE"
                                     ELSE IF p \in displaced THEN "none" ELSE rows[p]]
            s == Seated(Without(state, displaced), rs)
        IN  /\ table = "OPEN" /\ rows[u] # "ACTIVE"
            /\ ~Posted("cleanup", u, 0)
            /\ "seat_reclaimed" \in Cases \/ \A v \in displaced : state.bets[v] = 0
            /\ Active(rs) \subseteq s.entries \cup sits
            /\ rows' = rs
            /\ state' = [s EXCEPT !.entries = @ \cup sits,
                 !.stacks = [p \in Players |-> IF p \in sits THEN BuyIn ELSE @[p]],
                 !.waiting = WaitsFor(s, u)]
            /\ BuyInPosted("join", u, id, Seeded)
            /\ Answered(u, "join", id)
            /\ table' = table
  BY DEF Join, NothingLost
<1> DEFINE rs == [p \in Players |-> IF p \in sits THEN "ACTIVE"
                                    ELSE IF p \in displaced THEN "none" ELSE rows[p]]
           w == Without(state, displaced)
           s == Seated(w, rs)
           stacks == [p \in Players |-> IF p \in sits THEN BuyIn ELSE s.stacks[p]]
<1>2. /\ id \in 1..MaxRequests
      /\ presence' = presence
      /\ pending' \in [Users -> {None} \cup [kind: {"join", "rebuy"}, id: 1..MaxRequests]]
      /\ asked' \in [Users -> 0..MaxRequests]
      /\ id <= asked'[u] /\ \A v \in Users : asked[v] <= asked'[v]
      /\ \A v \in Users : v # u => pending'[v] = pending[v]
      /\ pending[u] = None => id > asked[u]
      /\ pending[u] # None => pending[u].kind = "join"
  BY <1>1, AnsweredFacts
<1>3. /\ state \in State /\ rows \in [Players -> Statuses]
      /\ state.stacks \in [Players -> Nat] /\ state.bets \in [Players -> Nat]
      /\ state.entries \subseteq Players /\ BuyIn \in Nat /\ u \in Players
  BY EscrowAssumption DEF TypeOK, State, Players
<1>4. /\ Seeded \subseteq Bots /\ sits \subseteq Players
      /\ \A p \in sits : rows[p] # "ACTIVE"
      /\ displaced \subseteq Users /\ \A v \in displaced : rows[v] # "ACTIVE" /\ v \notin sits
  <2>1. /\ Seeded \subseteq Bots /\ sits \subseteq Players /\ \A p \in sits : rows[p] # "ACTIVE"
    BY <1>1 DEF Seeded, Active, Players
  <2>2. displaced \subseteq Users \ {u} /\ \A v \in displaced : rows[v] = "INACTIVE"
    BY DEF Displaced
  <2> QED BY <2>1, <2>2, EscrowAssumption
<1>5. \A p \in sits \cup displaced : state.stacks[p] = 0 /\ p \notin state.entries
  BY <1>4 DEF StacksAreOwned, Players
<1>6. ~Posted("join", u, id)
  <2>1. pending[u] = None
    BY <1>1, <1>2 DEF RetriesAreSeated
  <2>2. id > asked[u] /\ asked[u] \in Nat /\ id \in Nat
    BY <1>2, <2>1, EscrowAssumption DEF TypeOK
  <2> QED BY <2>2 DEF Posted, UsedIdsAreOld
<1>7. /\ account' \in [Players -> Int] /\ \A v \in Users : account'[v] >= 0
      /\ \A p \in Players : account'[p] = account[p] - IF p \in Seeded \cup {u} THEN BuyIn ELSE 0
      /\ escrow' = escrow + BuyIn * Cardinality(Seeded \cup {u})
      /\ ledger' = ledger \cup {Key("join", u, id, BuyIn)}
      /\ Key("join", u, id, BuyIn) \in Keys
  BY <1>1, <1>2, <1>4, <1>6, BuyInFacts
<1>8. /\ w \in State /\ w.entries = state.entries \ displaced /\ w.seats = state.seats \ displaced
      /\ w.stacks = [p \in Players |-> IF p \in displaced THEN 0 ELSE state.stacks[p]]
      /\ w.phase = state.phase /\ w.bets = state.bets /\ w.dealt = state.dealt /\ w.in = state.in
  BY <1>3, WithoutFields
<1>9. w.stacks = state.stacks /\ w.entries = state.entries
  BY <1>3, <1>5, <1>8
<1> HIDE DEF w
<1>10. /\ s \in State /\ s.entries = state.entries /\ s.stacks = state.stacks
       /\ s.phase = state.phase /\ s.bets = state.bets /\ s.dealt = state.dealt /\ s.in = state.in
       /\ s.seats = (state.seats \ displaced) \cup Active(rs)
  BY <1>8, <1>9, SeatedFields
<1>11. /\ "seat_reclaimed" \in Cases \/ \A v \in displaced : state.bets[v] = 0
       /\ table = "OPEN" /\ rows[u] # "ACTIVE" /\ ~Posted("cleanup", u, 0)
       /\ rows' = rs /\ table' = table
       /\ state' = [s EXCEPT !.entries = s.entries \cup sits, !.stacks = stacks,
                             !.waiting = WaitsFor(s, u)]
  BY <1>1, <1>10 DEF State, w
<1> HIDE DEF s
<1>12. /\ stacks \in [Players -> Nat]
       /\ \A p \in Players : stacks[p] = state.stacks[p] + IF p \in sits THEN BuyIn ELSE 0
  BY <1>3, <1>5, <1>10
<1> HIDE DEF stacks
<1>13. /\ state'.entries = state.entries \cup sits /\ state'.stacks = stacks
       /\ state'.phase = state.phase /\ state'.bets = state.bets
       /\ state'.dealt = state.dealt /\ state'.in = state.in /\ state'.seats = s.seats
  BY <1>10, <1>11 DEF State
<1>14. state' \in State
  BY <1>4, <1>10, <1>11, <1>12 DEF State, WaitsFor
<1>15. rows' \in [Players -> Statuses]
  BY <1>3, <1>11 DEF Statuses
<1>16. ClaimsBacked' /\ escrow' \in Nat
  <2> DEFINE share == [p \in Players |-> IF p \in sits THEN BuyIn ELSE 0]
  <2>1. share \in [Players -> Nat] /\ \A p \in Players : stacks[p] = state.stacks[p] + share[p]
    BY <1>3, <1>12
  <2>2. Total(share) = BuyIn * Cardinality(sits)
    BY <1>3, <1>4, PlayersAreFinite, SumOfEqualShares DEF Total
  <2> HIDE DEF share
  <2>3. Total(stacks) = Total(state.stacks) + Total(share)
    BY <1>3, <1>12, <2>1, TotalAdds
  <2>4. Total(share) \in Nat /\ Total(state.stacks) \in Nat /\ Total(state.bets) \in Nat
    BY <1>3, <2>1, TotalIsNat
  <2>5. escrow = Total(state.stacks) + Total(state.bets)
    BY <1>11 DEF ClaimsBacked, Pot
  <2>6. escrow' = escrow + Total(share)
    <3>1. sits = Seeded \cup {u}
      OBVIOUS
    <3> QED BY <1>7, <2>2, <3>1
  <2>7. Total(state'.stacks) + Total(state'.bets) = escrow' /\ escrow' \in Nat
    BY <1>13, <2>3, <2>4, <2>5, <2>6
  <2> QED BY <1>11, <2>7 DEF ClaimsBacked, Pot
<1>17. TypeOK'
  BY <1>2, <1>7, <1>11, <1>14, <1>15, <1>16 DEF TypeOK
<1>18. (NoHandNoBets /\ ClosedIsEmpty /\ InHandWithStack)'
  BY <1>5, <1>10, <1>11, <1>13 DEF NoHandNoBets, ClosedIsEmpty, InHandWithStack, Live
<1>19. RetriesAreSeated'
  BY <1>2, <1>3, <1>4, <1>11 DEF RetriesAreSeated, Players
<1>20. UsedIdsAreOld'
  BY <1>2, <1>7, IdsStayOld DEF Key
<1>21. StacksAreOwned'
  <2>1. \A p \in Players : p \in displaced => p \notin state.entries /\ p \notin sits
    BY <1>4, <1>5
  <2> QED BY <1>3, <1>11, <1>12, <1>13, <2>1 DEF StacksAreOwned
<1>22. CleanedUpStayAway'
  <2>1. \A v \in Users : Posted("cleanup", v, 0)' => Posted("cleanup", v, 0)
    BY <1>7 DEF Posted, Key
  <2>2. \A v \in Users : rows'[v] = "ACTIVE" => rows[v] = "ACTIVE" \/ v = u
    BY <1>4, <1>11, EscrowAssumption DEF Players
  <2> QED BY <1>11, <2>1, <2>2 DEF CleanedUpStayAway
<1>23. WealthKept
  <2>1. \A p \in Players : /\ account[p] \in Int /\ state.stacks[p] \in Nat
                           /\ state.bets[p] \in Nat
    BY <1>3 DEF TypeOK
  <2>2. \A p \in Players : account'[p] = account[p] - IF p \in sits THEN BuyIn ELSE 0
    BY <1>7
  <2> HIDE DEF sits
  <2> QED BY <1>3, <1>12, <1>13, <2>1, <2>2 DEF WealthKept, Wealth
<1>24. (StacksHaveSeats /\ BetsHaveSeats)'
  <2>1. sits \subseteq Active(rs)
    BY <1>4 DEF Active
  <2>2. \A p \in Players : stacks[p] # 0 => p \in sits \/ (state.stacks[p] # 0 /\ p \notin displaced)
    BY <1>5, <1>12, <1>3
  <2>3. StacksHaveSeats'
    BY <1>10, <1>13, <2>1, <2>2 DEF StacksHaveSeats
  <2>4. \A p \in Players : p \notin displaced /\ rows[p] # "none" => rows'[p] # "none"
    BY <1>11
  <2>5. BetsHaveSeats'
    BY <1>10, <1>11, <1>13, <2>4 DEF BetsHaveSeats, Live
  <2> QED BY <2>3, <2>5
<1> QED BY <1>16, <1>17, <1>18, <1>19, <1>20, <1>21, <1>22, <1>23, <1>24

(* The same for a rebuy: its result would be stored if it had been         *)
(* charged.                                                                *)
LEMMA RebuyKeeps ==
  ASSUME ChipsInv, NEW u \in Users, Rebuy(u)
  PROVE  ChipsInv' /\ WealthKept
<1> USE DEF ChipsInv
<1> DEFINE s == IF Live(state) THEN Seated(state, rows) ELSE state
           stacks == [state.stacks EXCEPT ![u] = BuyIn]
<1>1. PICK id \in RequestIds(u, "rebuy") :
        /\ ~Stored(u, id)
        /\ table = "OPEN" /\ rows[u] = "ACTIVE"
        /\ u \in state.entries /\ state.stacks[u] = 0
        /\ state' = [s EXCEPT !.stacks[u] = BuyIn, !.waiting = s.waiting \cup {u}]
        /\ Live(state) \/ u \in state.seats \/ "late_rebuy" \in Cases
        /\ BuyInPosted("rebuy", u, id, {})
        /\ Answered(u, "rebuy", id)
        /\ UNCHANGED <<table, rows>>
  BY DEF Rebuy, Seated, TypeOK, State
<1>2. /\ id \in 1..MaxRequests
      /\ presence' = presence
      /\ pending' \in [Users -> {None} \cup [kind: {"join", "rebuy"}, id: 1..MaxRequests]]
      /\ asked' \in [Users -> 0..MaxRequests]
      /\ id <= asked'[u] /\ \A v \in Users : asked[v] <= asked'[v]
      /\ \A v \in Users : v # u => pending'[v] = pending[v]
      /\ pending'[u] = None \/ pending'[u].kind = "rebuy"
  BY <1>1, AnsweredFacts
<1>3. /\ state \in State /\ state.stacks \in [Players -> Nat] /\ state.bets \in [Players -> Nat]
      /\ BuyIn \in Nat /\ u \in Players
  BY EscrowAssumption DEF TypeOK, State, Players
<1>4. /\ account' \in [Players -> Int] /\ \A v \in Users : account'[v] >= 0
      /\ \A p \in Players : account'[p] = account[p] - IF p \in {} \cup {u} THEN BuyIn ELSE 0
      /\ escrow' = escrow + BuyIn * Cardinality({} \cup {u})
      /\ ledger' = ledger \cup {Key("rebuy", u, id, BuyIn)}
      /\ Key("rebuy", u, id, BuyIn) \in Keys
  <2>1. {} \in SUBSET Bots /\ "rebuy" \in {"join", "rebuy"} /\ ~Posted("rebuy", u, id)
    BY <1>1 DEF Stored
  <2>2. BuyInPosted("rebuy", u, id, {}) /\ id \in 1..MaxRequests
    BY <1>1, <1>2
  <2> HIDE DEF ChipsInv
  <2> QED BY <2>1, <2>2, BuyInFacts
<1>5. /\ s \in State /\ s.entries = state.entries /\ s.stacks = state.stacks
      /\ s.phase = state.phase /\ s.bets = state.bets /\ s.dealt = state.dealt /\ s.in = state.in
      /\ state.seats \subseteq s.seats /\ (Live(state) => Active(rows) \subseteq s.seats)
  BY <1>3, SeatedFields
<1> HIDE DEF s
<1>6. /\ stacks \in [Players -> Nat]
      /\ Total(stacks) = Total(state.stacks) - 0 + BuyIn
  <2>1. Total(stacks) = Total(state.stacks) - state.stacks[u] + BuyIn
    BY <1>3, TotalUpdate
  <2> QED BY <1>1, <1>3, <2>1
<1>7. state' = [s EXCEPT !.stacks = stacks, !.waiting = s.waiting \cup {u}]
  BY <1>1, <1>5 DEF State
<1>8. \A p \in Players : stacks[p] = IF p = u THEN BuyIn ELSE state.stacks[p]
  BY <1>3
<1> HIDE DEF stacks
<1>9. /\ state'.entries = state.entries /\ state'.stacks = stacks
      /\ state'.phase = state.phase /\ state'.bets = state.bets
      /\ state'.dealt = state.dealt /\ state'.in = state.in /\ state'.seats = s.seats
      /\ state' \in State
  BY <1>5, <1>6, <1>7 DEF State
<1>10. escrow' = escrow + BuyIn
  <2>1. Cardinality({} \cup {u}) = 1
    <3>1. {} \cup {u} = {u}
      OBVIOUS
    <3> QED BY <3>1, FS_Singleton
  <2> QED BY <1>3, <1>4, <2>1
<1>11. ClaimsBacked' /\ escrow' \in Nat
  <2>1. Total(state.stacks) \in Nat /\ Total(state.bets) \in Nat
    BY <1>3, TotalIsNat
  <2>2. escrow = Total(state.stacks) + Total(state.bets)
    BY <1>1 DEF ClaimsBacked, Pot
  <2> QED BY <1>1, <1>3, <1>6, <1>9, <1>10, <2>1, <2>2 DEF ClaimsBacked, Pot
<1>12. TypeOK'
  BY <1>1, <1>2, <1>4, <1>9, <1>11 DEF TypeOK
<1>13. (NoHandNoBets /\ ClosedIsEmpty /\ InHandWithStack)'
  BY <1>1, <1>5, <1>9 DEF NoHandNoBets, ClosedIsEmpty, InHandWithStack, Live
<1>14. RetriesAreSeated'
  BY <1>1, <1>2 DEF RetriesAreSeated
<1>15. UsedIdsAreOld'
  BY <1>2, <1>4, IdsStayOld DEF Key
<1>16. StacksAreOwned'
  BY <1>1, <1>8, <1>9 DEF StacksAreOwned
<1>17. CleanedUpStayAway'
  BY <1>1, <1>4 DEF CleanedUpStayAway, Posted, Key
<1>18. WealthKept
  <2>1. \A p \in Players : /\ account[p] \in Int /\ state.stacks[p] \in Nat
                           /\ state.bets[p] \in Nat
    BY <1>3 DEF TypeOK
  <2>2. \A p \in Players : account'[p] = account[p] - IF p = u THEN BuyIn ELSE 0
    BY <1>4
  <2>3. \A p \in Players : stacks[p] = state.stacks[p] + IF p = u THEN BuyIn ELSE 0
    BY <1>1, <1>3, <1>8
  <2> QED BY <1>3, <1>9, <2>1, <2>2, <2>3 DEF WealthKept, Wealth
<1>19. (StacksHaveSeats /\ BetsHaveSeats)'
  <2>1. "late_rebuy" \notin Cases => u \in s.seats
    BY <1>1, <1>3, <1>5 DEF Active
  <2> QED BY <1>1, <1>5, <1>8, <1>9, <2>1 DEF StacksHaveSeats, BetsHaveSeats, Live
<1> QED BY <1>11, <1>12, <1>13, <1>14, <1>15, <1>16, <1>17, <1>18, <1>19

(* Who gives up a seat gives up the requests that were not answered. *)
LEMMA GaveUpFacts ==
  ASSUME ChipsInv, NothingLost, NEW gone, GaveUp(gone)
  PROVE  /\ pending' \in [Users -> {None} \cup [kind: {"join", "rebuy"}, id: 1..MaxRequests]]
         /\ \A u \in Users : pending'[u] = IF u \in gone THEN None ELSE pending[u]
<1>1. "late_retry" \notin Cases
  BY DEF NothingLost
<1> QED BY <1>1 DEF ChipsInv, TypeOK, GaveUp

(* A close that the terminal close accepts leaves nothing behind. *)
LEMMA CloseKeeps ==
  ASSUME ChipsInv, NEW s \in State, NEW rs, NEW chips, NEW paid \in [Players -> Int],
         \A u \in Users : paid[u] >= 0,
         CloseTable(s, rs, chips, paid),
         pending' \in [Users -> {None} \cup [kind: {"join", "rebuy"}, id: 1..MaxRequests]],
         UNCHANGED <<ledger, presence, asked>>
  PROVE  /\ ChipsInv'
         /\ \A p \in Players : /\ account'[p] = paid[p] + Claim(s, p)
                               /\ state'.stacks[p] = 0 /\ state'.bets[p] = 0
<1> USE DEF ChipsInv
<1>1. /\ table' = "CLOSED" /\ state' = Closed(s) /\ escrow' = 0
      /\ rows' = [p \in Players |-> IF rs[p] = "none" THEN "none" ELSE "INACTIVE"]
      /\ account' = [p \in Players |-> paid[p] + Claim(s, p)]
  BY DEF CloseTable
<1>2. NoChips \in [Players -> Nat] /\ \A p \in Players : NoChips[p] = 0
  BY DEF NoChips
<1>3. /\ state' \in State /\ state'.stacks = NoChips /\ state'.bets = NoChips
      /\ state'.phase = "HAND_DONE" /\ state'.entries = {}
  BY <1>1, <1>2 DEF Closed, State, Phases
<1>4. rows' \in [Players -> Statuses] /\ \A p \in Players : rows'[p] # "ACTIVE"
  BY <1>1 DEF Statuses
<1>5. account' \in [Players -> Int] /\ \A u \in Users : account'[u] >= 0
  <2>1. \A p \in Players : Claim(s, p) \in Nat
    BY DEF Claim, State
  <2>2. \A p \in Players : paid[p] \in Int /\ account'[p] = paid[p] + Claim(s, p)
    BY <1>1
  <2>3. \A u \in Users : u \in Players
    BY DEF Players
  <2>4. account' \in [Players -> Int]
    BY <1>1, <2>1
  <2> QED BY <2>1, <2>2, <2>3, <2>4
<1>6. TypeOK'
  BY <1>1, <1>3, <1>4, <1>5 DEF TypeOK
<1>7. (ClaimsBacked /\ NoHandNoBets /\ ClosedIsEmpty /\ InHandWithStack)'
  BY <1>1, <1>2, <1>3 DEF ClaimsBacked, NoHandNoBets, ClosedIsEmpty, InHandWithStack, Live
<1>8. (RetriesAreSeated /\ UsedIdsAreOld)'
  BY <1>1 DEF RetriesAreSeated, UsedIdsAreOld
<1>9. (StacksAreOwned /\ CleanedUpStayAway)'
  BY <1>2, <1>3, <1>4 DEF StacksAreOwned, CleanedUpStayAway, Players
<1>10. (StacksHaveSeats /\ BetsHaveSeats)'
  BY <1>2, <1>3 DEF StacksHaveSeats, BetsHaveSeats, Live
<1> QED BY <1>1, <1>2, <1>3, <1>6, <1>7, <1>8, <1>9, <1>10

(* A row without a stack goes, and no chip with it. *)
LEMMA LeaveGoneKeeps ==
  ASSUME ChipsInv, NothingLost, NEW u \in Users, LeaveGone(u)
  PROVE  ChipsInv' /\ WealthKept
<1> USE DEF ChipsInv
<1>1. /\ u \notin state.entries /\ u \notin state.seats /\ rows' = [rows EXCEPT ![u] = "none"]
      /\ UNCHANGED <<table, state, account, escrow, ledger, presence, asked>>
  BY DEF LeaveGone
<1>2. /\ pending' \in [Users -> {None} \cup [kind: {"join", "rebuy"}, id: 1..MaxRequests]]
      /\ \A v \in Users : pending'[v] = IF v = u THEN None ELSE pending[v]
  BY GaveUpFacts DEF LeaveGone
<1>3. /\ rows' \in [Players -> Statuses]
      /\ \A p \in Players : rows'[p] = IF p = u THEN "none" ELSE rows[p]
  BY <1>1 DEF TypeOK, Statuses
<1>4. TypeOK'
  BY <1>1, <1>2, <1>3 DEF TypeOK
<1>5. (ClaimsBacked /\ NoHandNoBets /\ ClosedIsEmpty /\ InHandWithStack)'
  BY <1>1 DEF ClaimsBacked, Pot, NoHandNoBets, ClosedIsEmpty, InHandWithStack, Live
<1>6. (RetriesAreSeated /\ UsedIdsAreOld /\ CleanedUpStayAway /\ StacksAreOwned)'
  BY <1>1, <1>2, <1>3
     DEF RetriesAreSeated, UsedIdsAreOld, CleanedUpStayAway, Posted, StacksAreOwned, Players
<1>7. WealthKept
  BY <1>1 DEF WealthKept, Wealth
<1>8. (StacksHaveSeats /\ BetsHaveSeats)'
  BY <1>1, <1>3 DEF StacksHaveSeats, BetsHaveSeats, Live
<1> QED BY <1>4, <1>5, <1>6, <1>7, <1>8

(* A leaver in the hand folds; stack and bets stay until it is settled. *)
LEMMA LeaveLaterKeeps ==
  ASSUME ChipsInv, NEW u \in Users, LeaveLater(u)
  PROVE  ChipsInv' /\ WealthKept
<1> USE DEF ChipsInv
<1>1. /\ state' = [Flagged(state, u) EXCEPT !.in = @ \ {u}]
      /\ UNCHANGED <<table, rows, account, escrow, ledger, presence, pending, asked>>
  BY DEF LeaveLater, clientVars
<1>2. /\ state' \in State
      /\ state'.stacks = state.stacks /\ state'.bets = state.bets
      /\ state'.phase = state.phase /\ state'.in = state.in \ {u}
      /\ state'.dealt = state.dealt /\ state'.entries = state.entries
      /\ state'.seats = state.seats
  BY <1>1 DEF TypeOK, State, Flagged, Live
<1>3. TypeOK'
  BY <1>1, <1>2 DEF TypeOK
<1>4. (ClaimsBacked /\ NoHandNoBets /\ ClosedIsEmpty /\ InHandWithStack)'
  BY <1>1, <1>2 DEF ClaimsBacked, Pot, NoHandNoBets, ClosedIsEmpty, InHandWithStack, Live
<1>5. (RetriesAreSeated /\ UsedIdsAreOld /\ CleanedUpStayAway /\ StacksAreOwned)'
  BY <1>1, <1>2 DEF RetriesAreSeated, UsedIdsAreOld, CleanedUpStayAway, Posted, StacksAreOwned
<1>6. WealthKept
  BY <1>1, <1>2 DEF WealthKept, Wealth
<1>7. (StacksHaveSeats /\ BetsHaveSeats)'
  BY <1>1, <1>2 DEF StacksHaveSeats, BetsHaveSeats, Live
<1> QED BY <1>3, <1>4, <1>5, <1>6, <1>7

(* Pay-outs only add to the accounts. *)
LEMMA PaidOutFacts ==
  ASSUME ChipsInv, NEW gone
  PROVE  /\ PaidOut(gone) \in [Players -> Int]
         /\ \A p \in Players : PaidOut(gone)[p] = account[p] + IF p \in gone THEN state.stacks[p] ELSE 0
         /\ \A u \in Users : PaidOut(gone)[u] >= 0
<1>1. /\ account \in [Players -> Int] /\ state.stacks \in [Players -> Nat]
      /\ \A u \in Users : account[u] >= 0 /\ u \in Players
  BY DEF ChipsInv, TypeOK, State, Players
<1>2. \A p \in Players : PaidOut(gone)[p] = account[p] + IF p \in gone THEN state.stacks[p] ELSE 0
  BY DEF PaidOut
<1>3. PaidOut(gone) \in [Players -> Int]
  BY <1>1 DEF PaidOut
<1> QED BY <1>1, <1>2, <1>3

(* A leaver who is not in the hand is paid his stack, and the table may be *)
(* closed in the same transaction.                                         *)
LEMMA LeaveKeeps ==
  ASSUME ChipsInv, NothingLost, NEW u \in Users, Leave(u)
  PROVE  ChipsInv' /\ WealthKept
<1> USE DEF ChipsInv
<1> DEFINE w == Without(Flagged(state, u), {u})
           s == [w EXCEPT !.in = w.in \ {u}]
           rs == [rows EXCEPT ![u] = "none"]
           chips == escrow - state.stacks[u]
<1>1. /\ table = "OPEN" /\ u \in state.entries /\ ~PlaysOn(u)
      /\ Detached(u, s)
  <2>1. table = "OPEN" /\ u \in state.entries /\ ~PlaysOn(u)
    BY DEF Leave, NothingLost
  <2>2. Detached(u, [w EXCEPT !.phase = w.phase, !.in = w.in \ {u}])
    BY <2>1 DEF Leave
  <2>3. [w EXCEPT !.phase = w.phase, !.in = w.in \ {u}] = s
    BY DEF Without, Flagged, TypeOK, State
  <2> QED BY <2>1, <2>2, <2>3
<1>2. /\ state \in State /\ state.stacks \in [Players -> Nat] /\ state.bets \in [Players -> Nat]
      /\ u \in Players /\ account \in [Players -> Int] /\ rows[u] = "ACTIVE"
  BY <1>1 DEF TypeOK, State, Players, StacksAreOwned
<1>3. /\ Flagged(state, u) \in State /\ Flagged(state, u).stacks = state.stacks
      /\ Flagged(state, u).entries = state.entries /\ Flagged(state, u).phase = state.phase
      /\ Flagged(state, u).bets = state.bets /\ Flagged(state, u).dealt = state.dealt
      /\ Flagged(state, u).in = state.in /\ Flagged(state, u).seats = state.seats
  BY <1>2 DEF Flagged, State, Live
<1>4. /\ w \in State /\ w.entries = state.entries \ {u} /\ w.seats = state.seats \ {u}
      /\ w.stacks = [p \in Players |-> IF p \in {u} THEN 0 ELSE state.stacks[p]]
      /\ w.phase = state.phase /\ w.bets = state.bets /\ w.dealt = state.dealt /\ w.in = state.in
  BY <1>3, WithoutFields
<1> HIDE DEF w
<1>5. /\ s \in State /\ s.entries = state.entries \ {u} /\ s.seats = state.seats \ {u}
      /\ s.stacks \in [Players -> Nat]
      /\ s.stacks = [state.stacks EXCEPT ![u] = 0]
      /\ s.phase = state.phase /\ s.bets = state.bets /\ s.dealt = state.dealt
      /\ s.in = state.in \ {u}
  <2>1. s \in State /\ s.stacks = w.stacks /\ s.entries = w.entries /\ s.phase = w.phase
        /\ s.bets = w.bets /\ s.dealt = w.dealt /\ s.in = w.in \ {u} /\ s.seats = w.seats
    BY <1>4 DEF State
  <2>2. w.stacks = [state.stacks EXCEPT ![u] = 0] /\ w.stacks \in [Players -> Nat]
    BY <1>2, <1>4
  <2> HIDE DEF s
  <2> QED BY <1>4, <2>1, <2>2
<1> HIDE DEF s
<1>6. /\ pending' \in [Users -> {None} \cup [kind: {"join", "rebuy"}, id: 1..MaxRequests]]
      /\ \A v \in Users : pending'[v] = IF v = u THEN None ELSE pending[v]
      /\ UNCHANGED <<ledger, presence, asked>>
  <2>1. GaveUp({u}) /\ UNCHANGED <<ledger, presence, asked>>
    BY <1>1 DEF Detached
  <2> QED BY <2>1, GaveUpFacts
<1>7. CASE ActiveHumans(rs) = {} /\ ~Live(s) /\ Connected = {}
  <2>1. CloseTable(s, rs, chips, PaidOut({u}))
    BY <1>1, <1>7 DEF Detached
  <2>2. /\ PaidOut({u}) \in [Players -> Int]
        /\ \A p \in Players : PaidOut({u})[p] = account[p] + IF p \in {u} THEN state.stacks[p] ELSE 0
        /\ \A v \in Users : PaidOut({u})[v] >= 0
    BY PaidOutFacts
  <2>3. /\ ChipsInv'
        /\ \A p \in Players : /\ account'[p] = PaidOut({u})[p] + Claim(s, p)
                              /\ state'.stacks[p] = 0 /\ state'.bets[p] = 0
    <3> HIDE DEF ChipsInv, rs, chips
    <3> QED BY <1>5, <1>6, <2>1, <2>2, CloseKeeps
  <2>4. WealthKept
    <3>1. \A p \in Players : state.bets[p] = 0 /\ Claim(s, p) = IF p = u THEN 0 ELSE state.stacks[p]
      BY <1>2, <1>5, <1>7 DEF NoHandNoBets, Live, Claim
    <3>2. \A p \in Players : account[p] \in Int /\ state.stacks[p] \in Nat
      BY <1>2
    <3>3. \A p \in Players : account'[p] =
             account[p] + (IF p = u THEN state.stacks[p] ELSE 0) + IF p = u THEN 0 ELSE state.stacks[p]
      BY <2>2, <2>3, <3>1
    <3>4. \A p \in Players : account'[p] = account[p] + state.stacks[p]
      BY <3>2, <3>3
    <3> QED BY <2>3, <3>1, <3>2, <3>4 DEF WealthKept, Wealth
  <2> QED BY <2>3, <2>4
<1>8. CASE ~(ActiveHumans(rs) = {} /\ ~Live(s) /\ Connected = {})
  <2>1. /\ state' = s /\ rows' = rs /\ escrow' = chips /\ account' = PaidOut({u})
        /\ table' = table
    BY <1>1, <1>8 DEF Detached
  <2>2. /\ account' \in [Players -> Int]
        /\ \A p \in Players : account'[p] = account[p] + IF p \in {u} THEN state.stacks[p] ELSE 0
        /\ \A v \in Users : account'[v] >= 0
    BY <2>1, PaidOutFacts
  <2>3. /\ rows' \in [Players -> Statuses]
        /\ \A p \in Players : rows'[p] = IF p = u THEN "none" ELSE rows[p]
    BY <2>1 DEF TypeOK, Statuses
  <2>4. ClaimsBacked' /\ escrow' \in Nat
    <3>1. Total(s.stacks) = Total(state.stacks) - state.stacks[u] + 0
      BY <1>2, <1>5, TotalUpdate
    <3>2. /\ Total(s.stacks) \in Nat /\ Total(state.stacks) \in Nat /\ Total(state.bets) \in Nat
          /\ state.stacks[u] \in Nat
      BY <1>2, <1>5, TotalIsNat
    <3>3. escrow = Total(state.stacks) + Total(state.bets)
      BY <1>1 DEF ClaimsBacked, Pot
    <3> QED BY <1>1, <1>5, <2>1, <3>1, <3>2, <3>3 DEF ClaimsBacked, Pot
  <2>5. TypeOK'
    BY <1>5, <1>6, <2>1, <2>2, <2>3, <2>4 DEF TypeOK
  <2>6. (NoHandNoBets /\ ClosedIsEmpty)'
    BY <1>1, <1>5, <2>1 DEF NoHandNoBets, ClosedIsEmpty, Live
  <2>7. InHandWithStack'
    BY <1>1, <1>5, <2>1 DEF InHandWithStack, Live, PlaysOn
  <2>8. (RetriesAreSeated /\ UsedIdsAreOld)'
    BY <1>6, <2>1, <2>3 DEF RetriesAreSeated, UsedIdsAreOld, Players
  <2>9. CleanedUpStayAway'
    BY <1>6, <2>3 DEF CleanedUpStayAway, Posted, Players
  <2>10. StacksAreOwned'
    BY <1>2, <1>5, <2>1, <2>3 DEF StacksAreOwned
  <2>11. WealthKept
    <3>1. \A p \in Players : /\ account[p] \in Int /\ state.stacks[p] \in Nat
                             /\ state.bets[p] \in Nat
      BY <1>2
    <3>2. \A p \in Players : s.stacks[p] = IF p = u THEN 0 ELSE state.stacks[p]
      BY <1>2, <1>5
    <3>3. \A p \in Players : account'[p] = account[p] + IF p = u THEN state.stacks[p] ELSE 0
      BY <2>2
    <3>4. \A p \in Players : state'.stacks[p] = s.stacks[p] /\ state'.bets[p] = state.bets[p]
      BY <1>5, <2>1
    <3> HIDE DEF ChipsInv
    <3> QED BY <3>1, <3>2, <3>3, <3>4 DEF WealthKept, Wealth
  <2>12. (StacksHaveSeats /\ BetsHaveSeats)'
    <3>1. \A p \in Players : s.stacks[p] # 0 => state.stacks[p] # 0 /\ p # u
      BY <1>2, <1>5
    <3>2. Live(state) => u \notin state.dealt
      BY <1>1 DEF PlaysOn
    <3> QED BY <1>2, <1>5, <2>1, <2>3, <3>1, <3>2 DEF StacksHaveSeats, BetsHaveSeats, Live
  <2> QED BY <2>4, <2>5, <2>6, <2>7, <2>8, <2>9, <2>10, <2>11, <2>12
<1> QED BY <1>7, <1>8

(* The closing of the table as it is. *)
LEMMA CloseAsItIs ==
  ASSUME ChipsInv, CloseTable(state, rows, escrow, account),
         pending' \in [Users -> {None} \cup [kind: {"join", "rebuy"}, id: 1..MaxRequests]],
         UNCHANGED <<ledger, presence, asked>>
  PROVE  ChipsInv' /\ WealthKept
<1>1. state \in State /\ account \in [Players -> Int] /\ \A u \in Users : account[u] >= 0
  BY DEF ChipsInv, TypeOK
<1>2. /\ ChipsInv'
      /\ \A p \in Players : /\ account'[p] = account[p] + Claim(state, p)
                            /\ state'.stacks[p] = 0 /\ state'.bets[p] = 0
  BY <1>1, CloseKeeps
<1>3. \A p \in Players : Claim(state, p) = state.stacks[p] + state.bets[p]
                         /\ state.stacks[p] \in Nat /\ state.bets[p] \in Nat
  BY <1>1 DEF ChipsInv, NoHandNoBets, Claim, State
<1> QED BY <1>1, <1>2, <1>3 DEF WealthKept, Wealth

(* Those who left during the hand are paid their stacks. *)
LEMMA DeferredLeavesKeeps ==
  ASSUME ChipsInv, NothingLost, DeferredLeaves
  PROVE  ChipsInv' /\ WealthKept
<1> USE DEF ChipsInv
<1> DEFINE gone == Deferred(state, rows)
<1>1. /\ table = "OPEN" /\ HandIsOver /\ GaveUp(gone)
      /\ UNCHANGED <<ledger, presence, asked>>
  BY DEF DeferredLeaves
<1>2. /\ pending' \in [Users -> {None} \cup [kind: {"join", "rebuy"}, id: 1..MaxRequests]]
      /\ \A v \in Users : pending'[v] = IF v \in gone THEN None ELSE pending[v]
  BY <1>1, GaveUpFacts
<1>3. CASE gone = ActiveHumans(rows)
  <2>1. CloseTable(state, rows, escrow, account)
    BY <1>3 DEF DeferredLeaves
  <2> QED BY <1>1, <1>2, <2>1, CloseAsItIs
<1>4. CASE gone # ActiveHumans(rows)
  <2>1. /\ gone \subseteq state.entries
        /\ state' = Without(state, gone)
        /\ rows' = [p \in Players |-> IF p \in gone THEN "none" ELSE rows[p]]
        /\ account' = PaidOut(gone) /\ escrow' = escrow - ChipsOf(gone)
        /\ table' = table
    BY <1>4 DEF DeferredLeaves
  <2>2. /\ state \in State /\ state.stacks \in [Players -> Nat] /\ state.bets \in [Players -> Nat]
        /\ account \in [Players -> Int] /\ rows \in [Players -> Statuses]
        /\ ~Live(state)
    BY <1>1 DEF TypeOK, State, HandIsOver, Live
  <2>3. /\ account' \in [Players -> Int]
        /\ \A p \in Players : account'[p] = account[p] + IF p \in gone THEN state.stacks[p] ELSE 0
        /\ \A v \in Users : account'[v] >= 0
    BY <2>1, PaidOutFacts
  <2> HIDE DEF gone
  <2>4. /\ state' \in State /\ state'.entries = state.entries \ gone
        /\ state'.seats = state.seats \ gone
        /\ state'.stacks = [p \in Players |-> IF p \in gone THEN 0 ELSE state.stacks[p]]
        /\ state'.phase = state.phase /\ state'.bets = state.bets
        /\ state'.dealt = state.dealt /\ state'.in = state.in
    BY <2>1, <2>2, WithoutFields
  <2>5. rows' \in [Players -> Statuses]
    BY <2>1, <2>2 DEF Statuses
  <2>6. ClaimsBacked' /\ escrow' \in Nat
    <3> DEFINE taken == [p \in Players |-> IF p \in gone THEN state.stacks[p] ELSE 0]
    <3>1. taken \in [Players -> Nat] /\ state'.stacks \in [Players -> Nat]
      BY <2>2, <2>4
    <3>2. \A p \in Players : state.stacks[p] = state'.stacks[p] + taken[p]
      BY <2>2, <2>4
    <3>3. ChipsOf(gone) = Total(taken)
      BY DEF ChipsOf
    <3> HIDE DEF taken
    <3>4. Total(state.stacks) = Total(state'.stacks) + Total(taken)
      BY <2>2, <3>1, <3>2, TotalAdds
    <3>5. /\ Total(taken) \in Nat /\ Total(state'.stacks) \in Nat /\ Total(state.bets) \in Nat
      BY <2>2, <3>1, TotalIsNat
    <3>6. escrow = Total(state.stacks) + Total(state.bets)
      BY <1>1 DEF ClaimsBacked, Pot
    <3>7. escrow' = Total(state'.stacks) + Total(state.bets)
      BY <2>1, <3>3, <3>4, <3>5, <3>6
    <3> QED BY <1>1, <2>1, <2>4, <3>5, <3>7 DEF ClaimsBacked, Pot
  <2>7. TypeOK'
    BY <1>1, <1>2, <2>1, <2>3, <2>4, <2>5, <2>6 DEF TypeOK
  <2>8. (NoHandNoBets /\ ClosedIsEmpty /\ InHandWithStack)'
    BY <1>1, <2>1, <2>2, <2>4 DEF NoHandNoBets, ClosedIsEmpty, InHandWithStack, Live
  <2>9. (RetriesAreSeated /\ UsedIdsAreOld)'
    BY <1>1, <1>2, <2>1 DEF RetriesAreSeated, UsedIdsAreOld, Players
  <2>10. CleanedUpStayAway'
    BY <1>1, <2>1 DEF CleanedUpStayAway, Posted, Players
  <2>11. StacksAreOwned'
    BY <2>1, <2>2, <2>4 DEF StacksAreOwned
  <2>12. WealthKept
    <3>1. \A p \in Players : /\ account[p] \in Int /\ state.stacks[p] \in Nat
                             /\ state.bets[p] \in Nat
      BY <2>2
    <3> QED BY <2>3, <2>4, <3>1 DEF WealthKept, Wealth
  <2>13. (StacksHaveSeats /\ BetsHaveSeats)'
    BY <2>2, <2>4 DEF StacksHaveSeats, BetsHaveSeats, Live
  <2> QED BY <2>6, <2>7, <2>8, <2>9, <2>10, <2>11, <2>12, <2>13
<1> QED BY <1>3, <1>4

(* Who is cleaned up is paid once: he was not paid by a clean-up before    *)
(* (CleanedUpStayAway).                                                    *)
LEMMA CleanUpSeatKeeps ==
  ASSUME ChipsInv, NothingLost, NEW u \in Users, CleanUpSeat(u)
  PROVE  ChipsInv' /\ WealthKept
<1> USE DEF ChipsInv
<1> DEFINE amount == state.stacks[u]
           stacks == [state.stacks EXCEPT ![u] = 0]
<1>1. /\ table = "OPEN" /\ rows[u] = "ACTIVE" /\ u \in state.entries
      /\ Live(state) => u \notin state.in
      /\ state' = [state EXCEPT !.entries = state.entries \ {u}, !.stacks = stacks]
      /\ rows' = [rows EXCEPT ![u] = "INACTIVE"]
      /\ UNCHANGED <<table, presence, asked>>
  BY DEF CleanUpSeat, NothingLost, TypeOK, State
<1>2. /\ pending' \in [Users -> {None} \cup [kind: {"join", "rebuy"}, id: 1..MaxRequests]]
      /\ \A v \in Users : pending'[v] = IF v = u THEN None ELSE pending[v]
  BY GaveUpFacts DEF CleanUpSeat
<1>3. /\ state \in State /\ state.stacks \in [Players -> Nat] /\ state.bets \in [Players -> Nat]
      /\ account \in [Players -> Int] /\ u \in Players /\ amount \in Nat
  BY DEF TypeOK, State, Players
<1>4. ~Posted("cleanup", u, 0)
  BY <1>1 DEF CleanedUpStayAway
<1>5. /\ account' = [account EXCEPT ![u] = @ + amount]
      /\ escrow' = escrow - amount
      /\ ledger' = IF amount = 0 THEN ledger ELSE ledger \cup {Key("cleanup", u, 0, amount)}
  BY <1>4 DEF CleanUpSeat, CleanUpPaid
<1>6. Key("cleanup", u, 0, amount) \in Keys
  BY <1>3, EscrowAssumption DEF Key, Keys
<1>7. /\ stacks \in [Players -> Nat]
      /\ \A p \in Players : stacks[p] = IF p = u THEN 0 ELSE state.stacks[p]
      /\ Total(stacks) = Total(state.stacks) - amount + 0
  <2>1. stacks \in [Players -> Nat] /\ \A p \in Players : stacks[p] = IF p = u THEN 0 ELSE state.stacks[p]
    BY <1>3
  <2>2. Total(stacks) = Total(state.stacks) - state.stacks[u] + 0
    BY <1>3, TotalUpdate
  <2> QED BY <2>1, <2>2
<1> HIDE DEF stacks
<1>8. /\ state'.entries = state.entries \ {u} /\ state'.stacks = stacks
      /\ state'.phase = state.phase /\ state'.bets = state.bets
      /\ state'.dealt = state.dealt /\ state'.in = state.in /\ state'.seats = state.seats
      /\ state' \in State
  BY <1>1, <1>3, <1>7 DEF State
<1>9. /\ rows' \in [Players -> Statuses]
      /\ \A p \in Players : rows'[p] = IF p = u THEN "INACTIVE" ELSE rows[p]
  BY <1>1 DEF TypeOK, Statuses
<1>10. /\ account' \in [Players -> Int] /\ \A v \in Users : account'[v] >= 0
       /\ \A p \in Players : account'[p] = account[p] + IF p = u THEN amount ELSE 0
  <2>1. \A p \in Players : account'[p] = account[p] + IF p = u THEN amount ELSE 0
    BY <1>3, <1>5
  <2>2. account' \in [Players -> Int]
    BY <1>3, <1>5
  <2>3. \A v \in Users : account[v] >= 0 /\ account[v] \in Int /\ v \in Players
    BY <1>3 DEF TypeOK, Players
  <2> HIDE DEF amount
  <2> QED BY <1>3, <2>1, <2>2, <2>3
<1>11. ClaimsBacked' /\ escrow' \in Nat
  <2>1. Total(state.stacks) \in Nat /\ Total(state.bets) \in Nat /\ Total(stacks) \in Nat
    BY <1>3, <1>7, TotalIsNat
  <2>2. escrow = Total(state.stacks) + Total(state.bets)
    BY <1>1 DEF ClaimsBacked, Pot
  <2> HIDE DEF amount
  <2>3. escrow' = Total(stacks) + Total(state.bets)
    BY <1>3, <1>5, <1>7, <2>1, <2>2
  <2> QED BY <1>1, <1>8, <2>1, <2>3 DEF ClaimsBacked, Pot
<1>12. TypeOK'
  BY <1>1, <1>2, <1>5, <1>6, <1>8, <1>9, <1>10, <1>11 DEF TypeOK
<1>13. (NoHandNoBets /\ ClosedIsEmpty /\ InHandWithStack)'
  BY <1>1, <1>8 DEF NoHandNoBets, ClosedIsEmpty, InHandWithStack, Live
<1>14. (RetriesAreSeated /\ StacksAreOwned)'
  BY <1>1, <1>2, <1>7, <1>8, <1>9 DEF RetriesAreSeated, StacksAreOwned, Players
<1>15. UsedIdsAreOld'
  BY <1>1, <1>5 DEF UsedIdsAreOld, Key
<1>16. CleanedUpStayAway'
  BY <1>5, <1>9 DEF CleanedUpStayAway, Posted, Key, Players
<1>17. WealthKept
  <2>1. \A p \in Players : /\ account[p] \in Int /\ state.stacks[p] \in Nat
                           /\ state.bets[p] \in Nat
    BY <1>3
  <2> QED BY <1>7, <1>8, <1>10, <2>1 DEF WealthKept, Wealth
<1>18. (StacksHaveSeats /\ BetsHaveSeats)'
  BY <1>7, <1>8, <1>9 DEF StacksHaveSeats, BetsHaveSeats, Live
<1> QED BY <1>11, <1>12, <1>13, <1>14, <1>15, <1>16, <1>17, <1>18

(* The two ways the table is closed from outside. *)
LEMMA CleanUpTableKeeps ==
  ASSUME ChipsInv, NothingLost, NEW u \in Users, CleanUpTable(u)
  PROVE  ChipsInv' /\ WealthKept
BY GaveUpFacts, CloseAsItIs DEF CleanUpTable

LEMMA SweepKeeps ==
  ASSUME ChipsInv, Sweep
  PROVE  ChipsInv' /\ WealthKept
<1>1. CloseTable(state, rows, escrow, account) /\ UNCHANGED <<ledger, presence, pending, asked>>
  BY DEF Sweep, clientVars
<1>2. pending' \in [Users -> {None} \cup [kind: {"join", "rebuy"}, id: 1..MaxRequests]]
  BY <1>1 DEF ChipsInv, TypeOK
<1> QED BY <1>1, <1>2, CloseAsItIs

(* Nothing happens, nothing moves. *)
LEMMA StutterKeeps ==
  ASSUME ChipsInv, UNCHANGED vars
  PROVE  ChipsInv' /\ WealthKept
<1>1. UNCHANGED <<table, rows, state, account, escrow, ledger, presence, pending, asked>>
  BY DEF vars
<1> USE DEF ChipsInv
<1>2. TypeOK'
  BY <1>1 DEF TypeOK
<1>3. (ClaimsBacked /\ NoHandNoBets /\ ClosedIsEmpty /\ InHandWithStack)'
  BY <1>1 DEF ClaimsBacked, Pot, NoHandNoBets, ClosedIsEmpty, InHandWithStack, Live
<1>4. (RetriesAreSeated /\ UsedIdsAreOld /\ CleanedUpStayAway /\ StacksAreOwned)'
  BY <1>1 DEF RetriesAreSeated, UsedIdsAreOld, CleanedUpStayAway, Posted, StacksAreOwned
<1>5. WealthKept
  BY <1>1 DEF WealthKept, Wealth
<1>6. (StacksHaveSeats /\ BetsHaveSeats)'
  BY <1>1 DEF StacksHaveSeats, BetsHaveSeats, Live
<1> QED BY <1>2, <1>3, <1>4, <1>5, <1>6

(* An empty table has no chips. *)
LEMMA ChipsInvInit == Init => ChipsInv
<1> SUFFICES ASSUME Init PROVE ChipsInv
  OBVIOUS
<1>1. /\ NoChips \in [Players -> Nat] /\ \A p \in Players : NoChips[p] = 0
      /\ Total(NoChips) = 0
  BY TotalOfNone DEF NoChips
<1>2. /\ state \in State /\ state.phase = "INIT" /\ state.entries = {}
      /\ state.stacks = NoChips /\ state.bets = NoChips
  BY <1>1 DEF Init, Fresh, State, Phases
<1>3. TypeOK
  BY <1>2, EscrowAssumption DEF Init, TypeOK, Statuses, Presences, Players
<1>4. ClaimsBacked
  BY <1>1, <1>2 DEF Init, ClaimsBacked, Pot
<1>5. NoHandNoBets /\ ClosedIsEmpty /\ InHandWithStack /\ StacksAreOwned
  BY <1>1, <1>2 DEF Init, NoHandNoBets, ClosedIsEmpty, InHandWithStack, StacksAreOwned, Live
<1>6. RetriesAreSeated /\ UsedIdsAreOld /\ CleanedUpStayAway
  BY DEF Init, RetriesAreSeated, UsedIdsAreOld, CleanedUpStayAway, Posted
<1>7. StacksHaveSeats /\ BetsHaveSeats
  BY <1>1, <1>2 DEF StacksHaveSeats, BetsHaveSeats, Live
<1> QED BY <1>3, <1>4, <1>5, <1>6, <1>7 DEF ChipsInv

(* What each step does: the invariant stays, and wealth moves only when a  *)
(* hand is settled.                                                        *)
WealthStep == (\E p \in Players : Wealth(p)' # Wealth(p)) => Live(state) /\ state'.phase = "SETTLED"

(* Each step keeps the invariant, and one of them moves wealth. *)
LEMMA ChipsInvStep ==
  ASSUME ChipsInv, NothingLost, [Next]_vars
  PROVE  ChipsInv' /\ WealthStep
<1>1. CASE Settle
  BY <1>1, SettleKeeps DEF WealthStep
<1>2. ASSUME NEW u \in Users, Command(u) PROVE ChipsInv' /\ WealthKept
  BY <1>2, JoinKeeps, RejoinKeeps, RebuyKeeps, RebuyAgainKeeps, LeaveKeeps, LeaveLaterKeeps,
     LeaveGoneKeeps DEF Command
<1>3. ASSUME NEW u \in Users, Move(u) PROVE ChipsInv' /\ WealthKept
  BY <1>3, MoveKeeps
<1>4. ASSUME NEW u \in Users, CleanUp(u) PROVE ChipsInv' /\ WealthKept
  BY <1>4, CleanUpSeatKeeps, CleanUpTableKeeps DEF CleanUp
<1>5. ASSUME NEW p \in Players, Bet(p) \/ Fold(p) PROVE ChipsInv' /\ WealthKept
  BY <1>5, BetKeeps, FoldKeeps
<1>6. CASE Deal \/ DeferredLeaves \/ Sweep \/ UNCHANGED vars
  BY <1>6, DealKeeps, DeferredLeavesKeeps, SweepKeeps, StutterKeeps DEF WealthKept, WealthStep
<1> QED BY <1>1, <1>2, <1>3, <1>4, <1>5, <1>6 DEF Next, WealthKept, WealthStep

(* The invariant always holds. *)
LEMMA ChipsInvHolds == ASSUME NothingLost PROVE Spec => []ChipsInv
<1>1. ChipsInv /\ [Next]_vars => ChipsInv'
  BY ChipsInvStep
<1> QED BY <1>1, ChipsInvInit, PTL DEF Spec

(* The variables keep their types: no stack, bet or escrow is ever         *)
(* negative, no user is overdrawn, and no request id is used beyond those  *)
(* asked for, whatever is sent again.                                      *)
THEOREM EscrowTypeCorrect == ASSUME NothingLost PROVE Spec => []TypeOK
<1>1. ChipsInv => TypeOK
  BY DEF ChipsInv
<1> QED BY <1>1, ChipsInvHolds, PTL

(* Stacks and pot are always what the escrow account of the table holds,   *)
(* for any players, buy-in and bankroll: each transaction of join, rebuy,  *)
(* leave, clean-up and close moves in the state what it posts to the       *)
(* ledger.                                                                 *)
THEOREM EscrowBacksClaims == ASSUME NothingLost PROVE Spec => []ClaimsBacked
<1>1. ChipsInv => ClaimsBacked
  BY DEF ChipsInv
<1> QED BY <1>1, ChipsInvHolds, PTL

(* Nobody gains or loses a chip but by the settlement of a hand: not by a  *)
(* join sent twice, a rebuy with a lost answer, a leave, a clean-up or the *)
(* closing of the table.                                                   *)
THEOREM WealthMovesOnlyAtSettlement == ASSUME NothingLost PROVE Spec => WealthMovesAtSettlementOnly
<1>1. ChipsInv /\ [Next]_vars =>
        [(\E p \in Players : Wealth(p)' # Wealth(p))
           => Live(state) /\ state'.phase = "SETTLED"]_vars
  BY ChipsInvStep DEF WealthStep
<1> QED BY <1>1, ChipsInvHolds, PTL DEF Spec, WealthMovesAtSettlementOnly

(* The terminal close never gets stuck on an open table: the pot is known, *)
(* claims and escrow agree and who has a claim has a row and a seat, on    *)
(* the table where no late rebuy and no reclaimed seat took one away.      *)
THEOREM OpenTableCanBeClosed == ASSUME Cases = {} PROVE Spec => []TableCanBeClosed
<1>1. ChipsInv => TableCanBeClosed
  <2> SUFFICES ASSUME ChipsInv, table = "OPEN", ~(Live(state) /\ state.potZeroed)
               PROVE  CanClose(state, rows, escrow)
    BY DEF TableCanBeClosed
  <2>1. /\ state.stacks \in [Players -> Nat] /\ state.bets \in [Players -> Nat]
    BY DEF ChipsInv, TypeOK, State
  <2>2. Total(state.stacks) + Pot(state) = escrow
    BY DEF ChipsInv, ClaimsBacked
  <2>3. ~Live(state) => Pot(state) = 0
    BY <2>1, TotalOfNone DEF ChipsInv, NoHandNoBets, Pot
  <2>4. ASSUME NEW p \in Players, Claim(state, p) # 0
        PROVE  rows[p] # "none" /\ p \in state.seats
    <3>1. CASE state.stacks[p] # 0
      BY <3>1 DEF ChipsInv, StacksHaveSeats, StacksAreOwned
    <3>2. CASE state.stacks[p] = 0
      <4>1. Live(state) /\ state.bets[p] # 0
        BY <2>1, <2>4, <3>2 DEF Claim
      <4> QED BY <4>1 DEF ChipsInv, BetsHaveSeats
    <3> QED BY <3>1, <3>2
  <2> QED BY <2>2, <2>3, <2>4 DEF CanClose
<1>2. NothingLost
  BY DEF NothingLost
<1> QED BY <1>1, <1>2, ChipsInvHolds, PTL
=============================================================================
