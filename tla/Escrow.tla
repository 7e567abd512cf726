------------------------------- MODULE Escrow -------------------------------
(***************************************************************************)
(* The chips of one cash table: how they move between the players' own     *)
(* accounts, the escrow account of the table and the stored table state    *)
(* (stacks and pot), through joining, buying in again, playing, leaving,   *)
(* being cleaned up and the closing of the table.                          *)
(*                                                                         *)
(* Every action is one database transaction; the tables' rows are locked   *)
(* in it, so it is atomic.  What runs between two of them (the queue, the  *)
(* retries, the runtime copy) is in TableCommit and SettledRollover.       *)
(*                                                                         *)
(* Abstracted: seat numbers (a join may take the seat of somebody cleaned  *)
(* up before), the betting rules and who wins (PokerHand has them), times  *)
(* (a grace period or a time limit ends at any moment).  Not here:         *)
(* replacement of bust bots, managed bot tables, SHOWDOWN reached by a     *)
(* leave, and quarantine.                                                  *)
(*                                                                         *)
(* Cases names seven sequences of legal calls in which chips are lost,     *)
(* made or stuck.  The properties are stated for the table without them,   *)
(* and each one is the only thing in their way:                            *)
(*   "late_retry"      a join is sent again after its seat was given up    *)
(*   "second_cleanup"  a player comes back who was paid by a clean-up      *)
(*   "leave_ends_hand" a player leaves a hand of two                       *)
(*   "cleanup_in_hand" a player in the hand is cleaned up, others stay     *)
(*   "absent_at_deal"  a hand is dealt while a player with chips is away   *)
(*   "late_rebuy"      a player not in the stored seats buys in again      *)
(*   "seat_reclaimed"  the seat of one with chips in the pot is reclaimed  *)
(***************************************************************************)
EXTENDS Integers, FiniteSets, FiniteSetsExt

CONSTANTS
  None,
  Users, Bots,
  BuyIn,          \* the table's buy-in, the stack everybody starts with
  Bankroll,       \* what an account holds at first
  MaxRequests,    \* bound on the joins and rebuys the users ask for
  Cases

AllCases == {"late_retry", "second_cleanup", "leave_ends_hand", "cleanup_in_hand",
             "absent_at_deal", "late_rebuy", "seat_reclaimed"}
Players == Users \cup Bots

ASSUME EscrowAssumption ==
  /\ IsFiniteSet(Users) /\ IsFiniteSet(Bots) /\ Users \cap Bots = {}
  /\ BuyIn \in Nat \ {0} /\ Bankroll \in Nat /\ MaxRequests \in Nat
  /\ Cases \subseteq AllCases

VARIABLES
  table,      \* poker_tables.status
  rows,       \* poker_seats.status, "none" for a player without a row
  state,      \* poker_state.state
  account,    \* chips_accounts of users; of bots, what their funding account has for them
  escrow,     \* chips_accounts POKER_TABLE:<id>
  ledger,     \* chips_transactions with a key that can be used twice
  presence,   \* of each user at this table, as the WS process sees it
  pending,    \* the join or rebuy whose answer the client has not had
  asked       \* how many joins and rebuys each client has sent

vars == <<table, rows, state, account, escrow, ledger, presence, pending, asked>>
clientVars == <<presence, pending, asked>>

ASSUME NoneAssumption == None \notin [kind: {"join", "rebuy"}, id: 1..MaxRequests]

Statuses == {"none", "ACTIVE", "INACTIVE"}
Presences == {"connected", "grace", "gone"}
Phases == {"INIT", "LIVE", "SETTLED", "HAND_DONE"}
Keys == [kind: {"join", "rebuy", "cleanup"}, user: Users, id: 0..MaxRequests, amount: Nat]

State == [
  phase: Phases,
  seats: SUBSET Players,
  entries: SUBSET Players,      \* who has an entry in stacks
  stacks: [Players -> Nat],     \* 0 for those who have none
  dealt: SUBSET Players,        \* handSeats
  in: SUBSET Players,           \* of those, who can still win
  bets: [Players -> Nat],       \* contributionsByUserId, whose sum is potTotal
  left: SUBSET Users,           \* leftTableByUserId
  waiting: SUBSET Users,        \* waitingForNextHandByUserId
  potZeroed: BOOLEAN]           \* pot is stored as 0 beside potTotal

NoChips == [p \in Players |-> 0]
Fresh == [phase |-> "INIT", seats |-> {}, entries |-> {}, stacks |-> NoChips,
          dealt |-> {}, in |-> {}, bets |-> NoChips, left |-> {}, waiting |-> {},
          potZeroed |-> FALSE]

Init ==
  /\ table = "OPEN"
  /\ rows = [p \in Players |-> "none"]
  /\ state = Fresh
  /\ account = [p \in Players |-> Bankroll]
  /\ escrow = 0
  /\ ledger = {}
  /\ presence = [u \in Users |-> "gone"]
  /\ pending = [u \in Users |-> None]
  /\ asked = [u \in Users |-> 0]

----------------------------------------------------------------------------
(***************************************************************************)
(* Reading the table.                                                      *)
(***************************************************************************)
Total(f) == SumFunction(f)
Pot(s) == Total(s.bets)
Live(s) == s.phase = "LIVE"

Active(rs) == {p \in Players : rs[p] = "ACTIVE"}
ActiveHumans(rs) == Active(rs) \cap Users
Deferred(s, rs) == ActiveHumans(rs) \cap s.left
Connected == {u \in Users : presence[u] = "connected"}

(* Mutant: the bets of a hand that is still played are forgotten.          *)
FinalStack(s, p) == s.stacks[p]

(* What the terminal close pays to p: a hand that is still played is       *)
(* called off and every bet goes back.                                     *)
Claim(s, p) == s.stacks[p] + IF Live(s) THEN s.bets[p] ELSE 0

(* Mutant: a bust player's claim of zero needs a seat as well.             *)
AnyClaimCanClose(s, rs, chips) ==
  /\ IF Live(s) THEN ~(s.potZeroed /\ Pot(s) # 0) ELSE Pot(s) = 0
  /\ Total(s.stacks) + Pot(s) = chips
  /\ \A p \in s.entries : rs[p] # "none" /\ p \in s.seats

(* classifyClaims accepts the state: the pot is known, claims and escrow   *)
(* are equal, and who has a claim has a row and a stored seat.             *)
CanClose(s, rs, chips) ==
  /\ IF Live(s) THEN ~(s.potZeroed /\ Pot(s) # 0) ELSE Pot(s) = 0
  /\ Total(s.stacks) + Pot(s) = chips
  /\ \A p \in Players : Claim(s, p) # 0 => rs[p] # "none" /\ p \in s.seats

(* toClosedInertState *)
Closed(s) == [s EXCEPT !.phase = "HAND_DONE", !.entries = {}, !.stacks = NoChips,
                       !.dealt = {}, !.in = {}, !.bets = NoChips]

(* executeTerminalPokerCloseInTx, on the state, the rows, the escrow and   *)
(* the accounts the transaction has made so far.                           *)
CloseTable(s, rs, chips, paid) ==
  /\ CanClose(s, rs, chips)
  /\ table' = "CLOSED"
  /\ state' = Closed(s)
  /\ rows' = [p \in Players |-> IF rs[p] = "none" THEN "none" ELSE "INACTIVE"]
  /\ account' = [p \in Players |-> paid[p] + Claim(s, p)]
  /\ escrow' = 0

(* p's chips leave the table. *)
Without(s, gone) ==
  [s EXCEPT !.seats = @ \ gone, !.entries = @ \ gone,
            !.stacks = [p \in Players |-> IF p \in gone THEN 0 ELSE @[p]]]
PaidOut(gone) == [p \in Players |-> account[p] + IF p \in gone THEN state.stacks[p] ELSE 0]
ChipsOf(gone) == Total([p \in Players |-> IF p \in gone THEN state.stacks[p] ELSE 0])

(* A client that has given up its seat does not send its join again. *)
GaveUp(gone) ==
  pending' = [u \in Users |->
    IF u \in gone /\ "late_retry" \notin Cases THEN None ELSE pending[u]]

----------------------------------------------------------------------------
(***************************************************************************)
(* Joining and buying in again.  The client keeps the request until it has *)
(* the answer and sends it again, with the same id, after a reconnect.     *)
(***************************************************************************)
RequestIds(u, kind) ==
  IF pending[u] = None THEN {n \in {asked[u] + 1} : Total(asked) < MaxRequests}
  ELSE IF pending[u].kind = kind THEN {pending[u].id} ELSE {}

(* The request was carried out; its answer arrives or is lost. *)
Answered(u, kind, id) ==
  /\ asked' = [asked EXCEPT ![u] = IF id > @ THEN id ELSE @]
  /\ pending' \in {[pending EXCEPT ![u] = None],
                   [pending EXCEPT ![u] = [kind |-> kind, id |-> id]]}
  /\ UNCHANGED presence

Key(kind, u, id, amount) == [kind |-> kind, user |-> u, id |-> id, amount |-> amount]

(* Mutant: an account may be overdrawn.                                    *)
CanOverdraw(u) == u \in Users

(* The bankroll is enough; a ledger account of a user never goes below 0.  *)
CanPay(u) == account[u] >= BuyIn

Posted(kind, u, id) == \E k \in ledger : k.kind = kind /\ k.user = u /\ k.id = id

(* A buy-in of u under this key: one already posted is not charged again;  *)
(* one that u cannot pay is refused.                                       *)
BuyInPosted(kind, u, id, seeded) ==
  LET charged == seeded \cup IF Posted(kind, u, id) THEN {} ELSE {u}
  IN  /\ u \in charged => CanPay(u)
      /\ account' = [p \in Players |-> account[p] - IF p \in charged THEN BuyIn ELSE 0]
      /\ escrow' = escrow + BuyIn * Cardinality(charged)
      /\ ledger' = ledger \cup {Key(kind, u, id, BuyIn)}

(* applyAuthoritativeSeatRowsToState: the ACTIVE rows take their seats.    *)
Seated(s, rs) == [s EXCEPT !.seats = @ \cup Active(rs)]

(* A seat row is there: nothing is charged, only the stored seats are      *)
(* brought up to date.  Every ACTIVE row needs a stack entry.              *)
Rejoin(u) ==
  \E id \in RequestIds(u, "join") :
    /\ table = "OPEN" /\ rows[u] = "ACTIVE"
    /\ Active(rows) \subseteq state.entries
    /\ state' = Seated(state, rows)
    /\ Answered(u, "join", id)
    /\ UNCHANGED <<table, rows, account, escrow, ledger>>

(* Who comes to sit down with u: the bots, when u is the only human.       *)
Seeded == IF ActiveHumans(rows) = {} THEN Bots \ Active(rows) ELSE {}

(* The players whose INACTIVE row may be at the seat u takes. *)
Displaced(u) == {{}} \cup {{v} : v \in {v \in Users \ {u} : rows[v] = "INACTIVE"}}

(* markFreshJoinWaitingForNextHand *)
WaitsFor(s, u) == s.waiting \cup IF Live(s) /\ u \notin s.dealt THEN {u} ELSE {}

(* executePokerJoinAuthoritative, for a user without an ACTIVE row.  The   *)
(* bankroll is asked for even when the buy-in has been posted before.      *)
Join(u) ==
  \E id \in RequestIds(u, "join"), displaced \in Displaced(u) :
    LET sits == {u} \cup Seeded
        rs == [p \in Players |-> IF p \in sits THEN "ACTIVE"
                                 ELSE IF p \in displaced THEN "none" ELSE rows[p]]
        s == Seated(Without(state, displaced), rs)
    IN  /\ table = "OPEN" /\ rows[u] # "ACTIVE"
        /\ CanPay(u)
        /\ "second_cleanup" \in Cases \/ ~Posted("cleanup", u, 0)
        /\ "seat_reclaimed" \in Cases \/ \A v \in displaced : state.bets[v] = 0
        /\ Active(rs) \subseteq s.entries \cup sits
        /\ rows' = rs
        /\ state' = [s EXCEPT !.entries = @ \cup sits,
                              !.stacks = [p \in Players |-> IF p \in sits THEN BuyIn ELSE @[p]],
                              !.waiting = WaitsFor(s, u)]
        /\ BuyInPosted("join", u, id, Seeded)
        /\ Answered(u, "join", id)
        /\ UNCHANGED table

(* Mutant: the stored result is not looked for.                            *)
NeverStored(u, id) == FALSE

(* ensurePokerRequest: the rebuy was carried out before. *)
Stored(u, id) == Posted("rebuy", u, id)

(* executePokerRebuyAuthoritative on a request whose result is stored. *)
RebuyAgain(u) ==
  \E id \in RequestIds(u, "rebuy") :
    /\ Stored(u, id)
    /\ Answered(u, "rebuy", id)
    /\ UNCHANGED <<table, rows, state, account, escrow, ledger>>

(* A bust player buys in again, for the next hand.  In a hand the runtime  *)
(* then gives every ACTIVE row a seat and stores it with its next write;   *)
(* after a hand nothing is written before the next deal.                   *)
Rebuy(u) ==
  \E id \in RequestIds(u, "rebuy") :
    /\ ~Stored(u, id)
    /\ table = "OPEN" /\ rows[u] = "ACTIVE"
    /\ u \in state.entries /\ state.stacks[u] = 0
    /\ state.phase = "SETTLED" \/ u \notin state.dealt
    /\ u \notin state.waiting
    /\ Live(state) \/ u \in state.seats \/ "late_rebuy" \in Cases
    /\ state' = [(IF Live(state) THEN Seated(state, rows) ELSE state) EXCEPT
                   !.stacks[u] = BuyIn, !.waiting = @ \cup {u}]
    /\ BuyInPosted("rebuy", u, id, {})
    /\ Answered(u, "rebuy", id)
    /\ UNCHANGED <<table, rows>>

----------------------------------------------------------------------------
(***************************************************************************)
(* Playing.                                                                *)
(***************************************************************************)
Here(p) == p \in Bots \/ presence[p] # "gone"
HasChips(p) == p \in state.entries /\ state.stacks[p] > 0
Ready == {p \in Active(rows) : HasChips(p) /\ Here(p)}
Absent == {p \in Active(rows) : HasChips(p) /\ ~Here(p)}

(* The stacks the hand begins with.  The first hand is built from nothing, *)
(* the next ones keep the entries of those who are not dealt in.           *)
Carried(s, players) ==
  IF s.phase = "SETTLED" THEN s ELSE [Without(s, Players \ players) EXCEPT !.waiting = {}]

(* Two blinds of one chip each are posted. *)
Deal ==
  \E blinds \in kSubset(2, Ready) :
    /\ table = "OPEN" /\ ~Live(state)
    /\ Ready \cap Users # {}
    /\ state.phase = "SETTLED" => Deferred(state, rows) = {}
    /\ Absent = {} \/ "absent_at_deal" \in Cases
    /\ state' = [Carried(state, Ready) EXCEPT
         !.phase = "LIVE", !.seats = Ready, !.dealt = Ready, !.in = Ready,
         !.stacks = [p \in Players |-> @[p] - IF p \in blinds THEN 1 ELSE 0],
         !.bets = [p \in Players |-> IF p \in blinds THEN 1 ELSE 0],
         !.left = {}, !.waiting = @ \ Ready, !.potZeroed = FALSE]
    /\ UNCHANGED <<table, rows, account, escrow, ledger, clientVars>>

Bet(p) ==
  /\ Live(state) /\ p \in state.in /\ state.stacks[p] > 0
  /\ state' = [state EXCEPT !.stacks[p] = @ - 1, !.bets[p] = @ + 1]
  /\ UNCHANGED <<table, rows, account, escrow, ledger, clientVars>>

Fold(p) ==
  /\ Live(state) /\ p \in state.in /\ Cardinality(state.in) > 2
  /\ state' = [state EXCEPT !.in = @ \ {p}]
  /\ UNCHANGED <<table, rows, account, escrow, ledger, clientVars>>

(* The last fold or the showdown: the pot goes to a player still in. *)
Settle ==
  \E w \in state.in :
    /\ Live(state)
    /\ state' = [state EXCEPT !.phase = "SETTLED", !.entries = @ \cup {w},
         !.stacks[w] = @ + Pot(state), !.bets = NoChips, !.dealt = {}, !.in = {},
         !.potZeroed = FALSE]
    /\ UNCHANGED <<table, rows, account, escrow, ledger, clientVars>>

----------------------------------------------------------------------------
(***************************************************************************)
(* Leaving.                                                                *)
(***************************************************************************)
Flagged(s, u) == [s EXCEPT !.left = @ \cup {u}, !.potZeroed = @ \/ Live(s)]

(* executePokerLeave when the state does not know u any more. *)
LeaveGone(u) ==
  /\ table = "OPEN" /\ rows[u] # "none"
  /\ u \notin state.seats /\ u \notin state.entries
  /\ rows' = [rows EXCEPT ![u] = "none"]
  /\ GaveUp({u})
  /\ UNCHANGED <<table, state, account, escrow, ledger, presence, asked>>

(* The leaver is part of the hand that is played. *)
PlaysOn(u) == Live(state) /\ u \in state.dealt

(* The seat and the stack stay until the hand is settled.                  *)
LeaveLater(u) ==
  /\ table = "OPEN" /\ u \in state.entries /\ PlaysOn(u)
  /\ Cardinality(state.in \ {u}) > 1
  /\ state' = [Flagged(state, u) EXCEPT !.in = @ \ {u}]
  /\ UNCHANGED <<table, rows, account, escrow, ledger, clientVars>>

(* s is the state after u was paid.  Without an active human, a hand and a *)
(* connected socket the same transaction closes the table or is refused.   *)
Detached(u, s) ==
  LET rs == [rows EXCEPT ![u] = "none"]
      chips == escrow - state.stacks[u]
  IN  /\ IF ActiveHumans(rs) = {} /\ ~Live(s) /\ Connected = {}
         THEN CloseTable(s, rs, chips, PaidOut({u}))
         ELSE /\ state' = s /\ rows' = rs /\ escrow' = chips /\ account' = PaidOut({u})
              /\ UNCHANGED table
      /\ GaveUp({u})
      /\ UNCHANGED <<ledger, presence, asked>>

(* Paid at once.  With the last but one player of the hand gone the        *)
(* reducer ends it, and pays the pot to nobody (checkHandDone).            *)
Leave(u) ==
  /\ table = "OPEN" /\ u \in state.entries
  /\ PlaysOn(u) => Cardinality(state.in \ {u}) = 1 /\ "leave_ends_hand" \in Cases
  /\ Detached(u, [Without(Flagged(state, u), {u}) EXCEPT
       !.phase = IF PlaysOn(u) THEN "HAND_DONE" ELSE @, !.in = @ \ {u}])

(* Mutant: only where a human is ready for the next hand.                  *)
SettledAndReady == state.phase \in {"SETTLED", "HAND_DONE"} /\ Ready \cap Users # {}

(* isTerminalSettlementPhase *)
HandIsOver == state.phase \in {"SETTLED", "HAND_DONE"}

(* finalizeDeferredLeavesAfterSettlement: the rollover pays those who left *)
(* during the hand, or closes the table when nobody else is there.         *)
DeferredLeaves ==
  /\ table = "OPEN" /\ HandIsOver
  /\ LET gone == Deferred(state, rows)
     IN  /\ gone # {}
         /\ IF gone = ActiveHumans(rows)
            THEN CloseTable(state, rows, escrow, account)
            ELSE /\ gone \subseteq state.entries
                 /\ state' = Without(state, gone)
                 /\ rows' = [p \in Players |-> IF p \in gone THEN "none" ELSE rows[p]]
                 /\ account' = PaidOut(gone) /\ escrow' = escrow - ChipsOf(gone)
                 /\ UNCHANGED table
         /\ GaveUp(gone)
         /\ UNCHANGED <<ledger, presence, asked>>

----------------------------------------------------------------------------
(***************************************************************************)
(* Presence, and the clean-up of players who are gone.                     *)
(***************************************************************************)
Connect(u) ==
  /\ presence[u] # "connected"
  /\ presence' = [presence EXCEPT ![u] = "connected"]
  /\ pending' \in {pending, [pending EXCEPT ![u] = None]}     \* the page was reloaded
  /\ UNCHANGED <<table, rows, state, account, escrow, ledger, asked>>

Disconnect(u) ==
  /\ presence[u] = "connected"
  /\ presence' = [presence EXCEPT ![u] = "grace"]
  /\ UNCHANGED <<table, rows, state, account, escrow, ledger, pending, asked>>

GraceEnds(u) ==
  /\ presence[u] = "grace"
  /\ presence' = [presence EXCEPT ![u] = "gone"]
  /\ UNCHANGED <<table, rows, state, account, escrow, ledger, pending, asked>>

Others(u) == ActiveHumans(rows) \ {u}

(* A cash-out with this key was posted: the same amount is taken for done, *)
(* another one fails the transaction.                                      *)
CleanUpPaid(u, amount) ==
  LET again == Posted("cleanup", u, 0)
      pays == IF again THEN 0 ELSE amount
  IN  /\ amount # 0 /\ again => Key("cleanup", u, 0, amount) \in ledger
      /\ account' = [account EXCEPT ![u] = @ + pays]
      /\ escrow' = escrow - pays
      /\ ledger' = IF amount = 0 THEN ledger ELSE ledger \cup {Key("cleanup", u, 0, amount)}

(* executeInactiveCleanup while another human plays.  The row stays, as    *)
(* INACTIVE, and so does the seat in the state.                            *)
CleanUpSeat(u) ==
  /\ table = "OPEN" /\ rows[u] = "ACTIVE" /\ presence[u] = "gone"
  /\ Others(u) # {}
  /\ u \in state.entries
  /\ Live(state) => u \notin state.in \/ "cleanup_in_hand" \in Cases
  /\ state' = [state EXCEPT !.entries = @ \ {u}, !.stacks[u] = 0]
  /\ rows' = [rows EXCEPT ![u] = "INACTIVE"]
  /\ CleanUpPaid(u, state.stacks[u])
  /\ GaveUp({u})
  /\ UNCHANGED <<table, presence, asked>>

(* Nobody else plays: the table is closed, unless somebody is watching. *)
CleanUpTable(u) ==
  /\ table = "OPEN" /\ rows[u] # "none" /\ presence[u] = "gone"
  /\ Others(u) = {} /\ Connected = {}
  /\ CloseTable(state, rows, escrow, account)
  /\ GaveUp({u})
  /\ UNCHANGED <<ledger, presence, asked>>

CleanUp(u) == CleanUpSeat(u) \/ CleanUpTable(u)

(* Mutant: the bots count as players. *)
NobodySeated == Active(rows) = {}

(* evaluateTableHealth: no human has an ACTIVE row. *)
NoHumanSeated == ActiveHumans(rows) = {}

(* The janitor finds a table with no active human and nobody connected: a  *)
(* zombie, or a hand nobody is there to play.                              *)
Sweep ==
  /\ table = "OPEN" /\ NoHumanSeated /\ Connected = {}
  /\ CloseTable(state, rows, escrow, account)
  /\ UNCHANGED <<ledger, clientVars>>

----------------------------------------------------------------------------
Command(u) == \/ Join(u) \/ Rejoin(u) \/ Rebuy(u) \/ RebuyAgain(u)
              \/ Leave(u) \/ LeaveLater(u) \/ LeaveGone(u)
Move(u) == Connect(u) \/ Disconnect(u) \/ GraceEnds(u)

Next ==
  \/ \E u \in Users : Command(u) \/ Move(u) \/ CleanUp(u)
  \/ \E p \in Players : Bet(p) \/ Fold(p)
  \/ Deal \/ Settle \/ DeferredLeaves \/ Sweep

Spec == Init /\ [][Next]_vars

(* A hand comes to its end (bots and turn timers play it), the rollover    *)
(* takes care of those who left, a grace period ends, and the janitor      *)
(* visits every open table; it does not see players who have left.         *)
Visited(u) == u \notin state.left /\ CleanUp(u)
Fairness ==
  /\ WF_vars(Settle) /\ WF_vars(DeferredLeaves) /\ WF_vars(Sweep)
  /\ \A u \in Users : WF_vars(GraceEnds(u)) /\ WF_vars(Visited(u))

FairSpec == Spec /\ Fairness

----------------------------------------------------------------------------
(* The variables keep their types. *)
TypeOK ==
  /\ table \in {"OPEN", "CLOSED"}
  /\ rows \in [Players -> Statuses]
  /\ state \in State
  /\ account \in [Players -> Int] /\ \A u \in Users : account[u] >= 0
  /\ escrow \in Nat
  /\ ledger \subseteq Keys
  /\ presence \in [Users -> Presences]
  /\ pending \in [Users -> {None} \cup [kind: {"join", "rebuy"}, id: 1..MaxRequests]]
  /\ asked \in [Users -> 0..MaxRequests]

(* Whatever was joined, left, repeated and cleaned up, the stacks and the  *)
(* pot of an open table are exactly what its escrow account holds, and a   *)
(* closed table holds nothing.                                             *)
ClaimsBacked ==
  IF table = "OPEN" THEN Total(state.stacks) + Pot(state) = escrow ELSE escrow = 0

(* At any moment the terminal close would accept the table and pay every   *)
(* chip to an account: no pot without a hand, no claim without a seat.     *)
(* The one exception lasts until the hand is settled: a player left it,    *)
(* and the state says both what the pot is and that it is 0.               *)
TableCanBeClosed ==
  table = "OPEN" /\ ~(Live(state) /\ state.potZeroed) => CanClose(state, rows, escrow)

(* What a player has, in the account and at the table.                     *)
Wealth(p) == account[p] + state.stacks[p] + state.bets[p]

(* Nobody wins or loses a chip by joining, coming back, retrying, leaving, *)
(* going away or the closing of the table: wealth changes when a hand is   *)
(* settled and at no other step.                                           *)
WealthMovesAtSettlementOnly ==
  [][(\E p \in Players : Wealth(p)' # Wealth(p))
       => Live(state) /\ state'.phase = "SETTLED"]_vars

(* A player who left in the middle of a hand gets out of the table: the    *)
(* row that keeps the seat for the hand is given up once it is settled.    *)
LeavingInHand(u) ==
  table = "OPEN" /\ u \in state.left /\ rows[u] = "ACTIVE" /\ state.phase # "INIT"
LeaversGetOut == \A u \in Users : LeavingInHand(u) ~> ~LeavingInHand(u)

(* A table everybody has gone from is closed, and its chips are paid out,  *)
(* unless somebody left and came back before the first hand: the flag of   *)
(* the leaver stays and hides the seat from the janitor.                   *)
HiddenFromJanitor == state.phase = "INIT" /\ Deferred(state, rows) # {}
AbandonedTablesClose ==
  <>[](Connected = {} /\ ~HiddenFromJanitor) => <>(table = "CLOSED")
=============================================================================
