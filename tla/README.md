# TLA+ models of the arcade platform

This directory holds TLA+ modules that model the authoritative core of the
repository, the multiplayer poker service (`ws-server/`, `shared/poker-domain/`)
with the chips it moves, and the experience points (`netlify/functions/`),
TLC configurations that check them on small instances, and TLAPS proofs of what
matters most for every size. Paths below are relative to the repository.

## 1. Inventory

### 1.1 The system

An arcade site: static games and pages, serverless functions
(`netlify/functions/`) over a PostgreSQL database and a Redis store, and one
long-running WebSocket server (`ws-server/server.mjs`) that runs poker tables.
Almost all state that several actors change at once belongs to poker.

| component | state it keeps | operations |
|---|---|---|
| **hand engine** `engine/poker-engine.mjs`, `shared/poker-action-reducer.mjs`, `shared/poker-primitives.mjs`, `shared/poker-turn-timeout.mjs` | the `pokerState` of a table: phase, turn, stacks, bets, contributions, who acted and folded | deal, fold, check, call, bet, raise, timeout, next hand |
| **settlement** `shared/settlement/*` | none (pure) | side pots, uncalled return, awarding pots |
| **table manager** `table/table-manager.mjs`, `core/reducer.mjs` | `tables`: the runtime copy (`coreState` with its version), `persistedStateVersion`, subscribers, replay cache, retiring ids | load, restore, evict, apply action, timeout, bootstrap hand, prepare and commit a rollover |
| **command queue** `runtime/table-command-queue.mjs` | one promise chain per table, pending commands by dedupe key | enqueue |
| **handlers** `handlers/*.mjs` | none across calls; each awaits the database in the middle | act, timeout, start hand, join, leave, rebuy, bot step, reaction |
| **state writer** `persistence/persisted-state-writer.mjs` | rows of `poker_state`, `poker_requests`, `poker_seats` | compare-and-swap of the state, durable record of ACT requests, seat projections, bot funding |
| **settled rollover** `server.mjs` 2116-2450 | one timer per table, published reveal deadlines | schedule, retry, fall back, deal the next hand |
| **recovery** `runtime/persist-conflict-recovery.mjs`, `bootstrap/*` | none | read a table back, or tell clients to resync |
| **admin and domain operations** `shared/poker-domain/*`, `netlify/functions/_shared/admin-ops.mjs` | the same rows, in transactions of their own, outside every queue | authoritative join, leave, rebuy, inactive clean-up, terminal close, bot claim recovery |
| **chips ledger** `_shared/chips-ledger.mjs`, `supabase/migrations` | accounts, transactions, entries, idempotency registry | post transaction, archive, prune |
| **sessions** `runtime/session-store.mjs`, `stream-log.mjs`, `disconnect-cleanup.mjs` | sessions by connection, stream sequence numbers, grace timers | connect, resume, resync, disconnect, expire |
| **continuous bot tables** `runtime/continuous-bot-*.mjs`, `persistence/closed-table-cleanup.mjs` | managed profiles, retirement claims | supervise, top up, retire, delete closed tables |
| **XP** `calculate-xp.mjs`, `_shared/xp-ledger.mjs`, `_shared/xp-identity.mjs` | Redis counters per day, session, user | award with caps, convert anonymous totals |
| **XP leaderboards** `_shared/xp-leaderboard*.mjs`, `_shared/user-profile.mjs` | Redis sorted sets per period, hidden markers; `leaderboard_visible` in PostgreSQL | opt out, opt in, backfill, prune, read |
| **bonuses, profiles, favourites, admin pages, browser clients** | rows of their own | single-row reads and writes |

`PROJECT.json` repeats the list with the status of each component.

### 1.2 How they interact

A client frame reaches a handler inside the command queue of its table, so one
process runs one command of a table at a time. The handler changes the runtime
copy synchronously, then awaits the state writer, whose compare-and-swap on
`poker_state.version` is the only thing that separates processes. On failure
the copy is restored from the database (`recoverFromPersistConflict`); if that
fails too, clients are told to resync and the copy stays as it is. Sweeps
(timeouts, presence, janitor), bot steps and settled-hand timers enter through
the same queue. Admin functions and domain operations change the same rows from
other processes. Join, rebuy, leave and clean-up are transactions that lock the
rows of one table and post to the chips ledger; the runtime copy follows them.

XP requests are serverless functions over Redis, where a Lua script is atomic and
nothing else is; what must agree between Redis and PostgreSQL is kept in order, not
in a transaction.

### 1.3 What is hard

* reading before an `await` and using it after it, in every handler;
* two processes, and admin transactions, on one row, with versions compared;
* a transaction that commits while the caller is told it failed;
* restores that fail and leave a speculative copy in memory;
* requests repeated after any of these;
* long hands: short all-ins, uncalled bets, dead money and odd chips;
* a hand, and a table after a hand, must go on though no player ever answers;
* chips that are in escrow while their owner leaves, comes back, is cleaned up or
  is away when a hand is dealt, under idempotency keys that outlive his seat;
* boards kept by increments beside counters, repaired from what was read earlier.

The hazards are listed with their source lines in `PROJECT.json`.

## 2. Plan

The order is that of what a table must not get wrong: the hand, then its
durable state, then going on to the next hand, then who owns the chips.

1. *Done.* `PokerSettlement`, `PokerHand`, `HandStakes` (abstract),
   `PokerSettlementProofs`, `PokerHandProofs`: one hand after another at a table.
2. *Done.* `DurableTable` (abstract), `TableCommit`, `TableCommitProofs`,
   `TableHistoryProofs`: workers, admins and the row they share.
3. *Done.* `SettledRollover`, `SettledRolloverProofs`: from a settled hand to
   the next, with timers, queue and retries.
4. *Done.* `Escrow`, `EscrowProofs`: the chips of one table between accounts,
   escrow, seats and state.
5. *Done.* `XpLedger`, `XpLedgerProofs`: awards, conversion, leaderboards.
6. *Done.* `SumProofs`: sums over finite sets, on which the proofs of `PokerSettlement`,
   `PokerHand`, `Escrow` and `XpLedger` rest. *Next*: an abstract bank that `Escrow`
   implements, with the cases that lose chips as its only other steps.
7. Bot replacement in `Escrow` (the funding account of the bankroll, bot claim
   recovery, quarantine), then its transactions under the version checks of
   `TableCommit`: which worker's copy survives a leave.
8. `Sessions`: resume against a moving stream, snapshots and patches with their
   sequence numbers; `Retirement`: deleting a closed table against a bootstrap that
   started before; the continuous bot supervisor.
9. Bonuses and campaigns, which post to the same ledger.

`SettledRollover` takes from `PokerHand` only that an ACT may settle a hand, and
from `TableCommit` only the compare-and-swap of one worker. Composing
`TableCommit` with `PokerHand` would multiply their states without a property
that needs both: a mutation's legality does not depend on who stores it.

## 3. The modules

Each definition's source lines are in `PROJECT.json` under `map`. A definition
whose comment begins with "Mutant:" is not part of the model: it is a faulty
version of the next one, used to show that a property can fail.

### 3.1 `PokerSettlement`, `PokerHand` and `HandStakes`

`PokerSettlement` is the pure part: `UncalledReturn`, `Pots` with the dead money
of folded players (`shared/settlement/poker-side-pots.mjs`) and `AwardPots` with
its odd chips (`poker-payout.mjs`), as functions of contributions, contenders
and the strength of each hand. Cards appear only as strengths, any assignment of
`Ranks` to contenders being a possible showdown.

`PokerHand` has one variable, `hand`, the `pokerState` of the table with the
names of the code. `StartFirstHand` and `StartNextHand` post the blinds and deal;
`Fold`, `Check`, `Call`, `Bet`, `Raise` and `OutOfTurnFold` are
`applyCoreStateAction` with all it does after the action (`Progress`: close
streets, run the board out, settle); `TurnTimeout` is the default action of
`poker-turn-timeout.mjs`. A seat that is not dealt in keeps its stack. A
settlement whose amounts are not chip amounts makes the code throw and keep its
state, so such outcomes are not in `Settle` (`ShowdownsPayChips` proves that there
are none). A bot is a player who may do anything legal, who sits down with two
chips or more (tables that have bots take 100 or 500, `isBotFundingAllowedForBuyIn`):
`StartFirstHand` need not say that `bootstrapCoreStateHand`, which copies only the
stacks of those dealt in, would drop the stack of a bot with one chip.

`HandStakes` is what the engine promises about chips, without streets, turns, blinds
or pots: `Deal` (two of those dealt in post something), `Play(p)` (p puts chips in, or
folds; the hand goes on among at least two, or is over) and, at the end, `GivenOut`:
the winnings add up to the stakes, who stayed in wins at most his `Claim`, who folded
at most gets back what he put in. `PokerHand` implements it with the state mapped by
`stacks`, and contributions and contenders while a hand is live.

### 3.2 `DurableTable` and `TableCommit`

`DurableTable` is the promise: a history that only grows, at most one place in it
for an ACT request, and answers that name that place.

`TableCommit` is the code that should keep it. A table state is the sequence of
mutations that made it. `db` is the row of `poker_state` with the ACT rows of
`poker_requests`; `worker[w]` is the runtime copy of one process with the
version it counts (`coreState.version`) and the last version it knows to be
stored (`persistedStateVersion`), which differ after a failed restore.
`ApplyAct`, `ApplyTimeout` and `StartHand` change the copy; `Commit`,
`CommitUnheard` (committed, reported failed), `LostToRequest`, `AlreadyApplied`
and `WriteFails` are the outcomes of `writeMutation` with what the handlers do
next; `Restore` and `RestoreLost` are the two ends of
`restoreTableFromPersisted`. Looking the request up and applying it is one
action although the code awaits between them: the copy belongs to the worker,
whose queue runs one command, and only the write looks at `db` again. A refusal
changes nothing and is left out; a handler that evicts and reloads a table is
`Crash` and `Load`. `ForceClose` and `CleanUpSeat` are admin transactions; the
second keeps the version, as `inactive-cleanup.mjs` does.

### 3.3 `SettledRollover`

One process and one table. `timer` is the entry of
`settledRolloverTimerByTableId`, `revealed` the hand whose deadline is in
`settlementRevealDeadlineByTableId`, `queue` the commands of the table with the
running one first, `pc` what that one awaits. What a command does between two
awaits is one action. A timer and a message get their turn only while a command
awaits (`Yields`). The dedupe key of the queue is in `FireTimer`.

* `BeginAct` .. `ActRefused`: the ACT that settles a hand. Before it is stored
  the copy is ahead of the database, and stays so if write and restore fail.
* `BeginRebuy` .. `RebuyRefused`, `Restored`, `RestoreFails`:
  `handleRebuyCommand`; the transaction belongs to `executeAuthoritativeRebuy`.
* `Begin` .. `RecoverFails`: `runSettledRolloverCommand`: generation check,
  deferred leavers (who may close the table), preparation, write, installation,
  or recovery and retry.
* `Exhausted` .. `FallbackFails`: the bounded bankroll's fallback, only with
  `Bounded`.
* `Load`, `Snapshot`, `Crash`, `ForceClose`, `Ask`, `FireTimer`: from outside.

Abstracted: who plays is one of `enough` (two players with chips), `with_bots`
(only once bust bots are replaced), `too_few`; delays, a timer being free to
fire at any time; the hand, named after the version that dealt it as `nextHandId`
does. Only one bot step of a table is in flight, as its scheduler has it, and a
bot step that finds no live hand only looks at the timer. A resync is asked for
only from clients connected to the loaded table. `lost` is a history variable:
set when a wake-up is thrown away, cleared when a timer is set.

### 3.4 `Escrow`

One cash table with its users and bots. `table`, `rows` and `state` are
`poker_tables.status`, `poker_seats.status` and the stored state, of which the parts
that decide about chips are kept: phase, seats, entries in `stacks`, who was dealt
in and can still win, contributions, who waits for the next hand, has left, or is
flagged as having left. `account` and `escrow` are balances, `ledger` the posted
keys that can be used twice. `presence` is what the WebSocket process knows of each
user, `pending` the request whose answer a client has not had: it may be sent again
(`poker-ws-client.js`), until the client gives it up.

Every action is one transaction, or one step of the hand. `Join` is
`executePokerJoinAuthoritative` with `Rejoin`, `Displaced`, `Seeded` and `WaitsFor`;
`Rebuy`, `RebuyAgain` (the stored answer); `LeaveGone`, `LeaveLater` (in a hand that
plays on) and `Leave` (paid out at once); `DeferredLeaves` is
`finalizeDeferredLeavesAfterSettlement`; `CleanUpSeat` and `CleanUpTable` are the two
ends of `executeInactiveCleanup`, entered by `GraceEnds` or the janitor (`Sweep`,
`CleanUp`); `CloseTable` is `executeTerminalPokerCloseInTx` with its projection
(`Claim`), its classification (`CanClose`) and the state it leaves (`Closed`). `Deal`,
`Bet`, `Fold` and `Settle` are the hand as far as chips go: who is dealt in, chips
going from stacks to the pot, and the pot going to one of those still in.

Abstracted: seat numbers, betting rules and blinds (a bet is one chip), split pots,
times. Left out: replacement of bust bots, managed tables, the SHOWDOWN that a leave
can reach, quarantine.

**Cases.** Seven sequences of legal calls lose chips, make them or leave them stuck. The
constant `Cases` admits them one by one; with any of them TLC finds a counterexample
on the instance of `escrow`, and without them the properties hold, so these seven are
all that stands in the way on that instance.

| case | what happens | breaks |
|---|---|---|
| `late_retry` | A joins, leaves and is paid; the join's answer was lost and the client sends it again: the buy-in is a duplicate, but A is seated with a stack (`join.mjs` 863-924) | `ClaimsBacked` |
| `second_cleanup` | A is cleaned up and paid, joins again, is cleaned up again: the key `poker:inactive_cleanup:<table>:<user>` is the first one's, so the stack is removed and not paid (`inactive-cleanup.mjs` 383-391) | `ClaimsBacked` |
| `leave_ends_hand` | one of two players in a hand leaves: the older reducer ends it as HAND_DONE and awards nothing, the pot stays (`_shared/poker-reducer.mjs` 343), and `pot: 0` beside `potTotal` keeps the claims from adding up (`leave.mjs` 723) | `TableCanBeClosed` |
| `cleanup_in_hand` | a player in a running hand is cleaned up and paid; the hand goes on with his seat and may award him the pot, which a new join overwrites | `ClaimsBacked` |
| `absent_at_deal` | a hand is dealt while a player with chips is disconnected: the next state has no entry for his stack (`poker-engine.mjs` 141-205) | `ClaimsBacked` |
| `late_rebuy` | a player who was not carried into the settled state buys in again: his stack has no seat in the state, and a terminal close refuses the table (`terminal-close.mjs` 454) | `TableCanBeClosed` |
| `seat_reclaimed` | a player leaves a hand that plays on, so his row is INACTIVE while his bet is in the pot; a join takes his seat and deletes the row (`join.mjs` 619-658): until the hand is settled the bet is a claim without a seat, and a terminal close refuses the table | `TableCanBeClosed` |

### 3.5 `XpLedger`

`total`, `daily`, `session`, `lastSync`, `converted` and `hidden` are the Redis keys
that the comments beside them name; `board[u]` holds u's scores on the current
all-time, day and week boards; `visible` is the column of `user_profiles`; `patch` and
`repair` say how far a visibility change and a maintenance step have come. `touched` is
the day a session's two keys were last written, by which `Expire` takes them away.
`paid`, `paidOn`, `forgotten`, `lost` and `behind` only observe.

`Award` and `AwardNothing` are `XP_ATOMIC_AWARD_SCRIPT`. The handler before it takes
the time and reads the session state, and both may be old when the script runs: an
award may carry yesterday's day (`StartedOn`) and any window, so requests in progress,
repeated, overtaken or dead need no state of their own. A window is named by its end, of
which only the order matters, and that 0 is one: `normalizeXpAwardInput` accepts it, and
it is also what `lastSync` is for a session without a window. The keys of a session live
a week from their last writing (`PEXPIRE`, `refreshSessionTtl`), in the model at least
`SessionDays` days. The handler refuses windows that end in the future
(`calculate-xp.mjs` 824) and none for being old, so that once the keys are gone an old
window is new again. `WindowPaidOnce` therefore speaks of the time the keys are sure to
live and of the windows that end after 0. One that ends at 0 is paid at every
repetition until a cap is met: it is worth points, as a window counts for a second at
least, and both stale checks (`xp-ledger.mjs` 58, `calculate-xp.mjs` 845) refuse only
when the last end is above 0. With `Windows` for `Windows \ {0}` in `PaidOnce`, TLC finds
that in three states. `Convert` is
`ANON_CONVERSION_SCRIPT`. `OptOut`, `OptOutStored`, `OptIn`, `OptInSynced` and
`PatchFails` are `updateUserProfile`: marker and boards first when hiding, database
first when showing. `FillRead` and `FillWrite` are one owner of a backfill page,
`PruneRead` and `PruneWrite` one member of a prune page; `FillFails` writes some of
the three scores.

`behind` holds whom maintenance left on a board with another score than the counters'.
It is why `BoardsMatchLedger` can be exact for everyone else: an award corrects the
all-time and day scores, but nothing in an award corrects the week's, and maintenance
may overwrite an award it has not read.

**Assumption on ids.** `XpAssumption` keeps accounts and guests apart
(`Users \cap Guests = {}`), and the code does not: `isValidXpAnonId` accepts the UUID of an
account, and a request without a token is credited to whatever id it names, with no board
member (`calculate-xp.mjs` 670-693), although `docs/hard-xp-logged-in-users.md:14` says
that the backend never trusts a client's id. `CountersAgree` and `BoardsMatchLedger`,
their runs and their theorems suppose that nobody sends an account's id as a guest's:
such an award would move the account's counters and leave its boards behind, and such
a conversion would empty an account into another.

## 4. The runs

| run | instance | shows |
|---|---|---|
| `hand` | 3 seats, stacks 1 or 3, blinds 1/2, 3 strengths; 25 190 states | `HandAccounting`, `StreetsStartEven`, `TurnCanAct`, `NoOverclaim`, `ChipsConserved`, refinement of `HandStakes` |
| `hands_end` | 3 seats, one a bot, stacks 1 or 2 (the bot 2), 1 strength; 1 428 states | `HandsEnd` |
| `commit` | 2 workers, 2 request ids, 2 payloads, versions up to 3; 20 059 states | `NoLostUpdate`, `RowsPointAtHistory`, `ClosedStaysClosed`, refinement of `DurableTable` |
| `commit_faults` | the same with failing restores and seat clean-up, versions up to 2; 609 287 states | `AcceptedIsDurable`, `VersionsAreUnique` |
| `rollover` | bounded bankroll, versions up to 4, 2 asked commands, 3 faults; 158 735 states | `HandIsDurable`, `LookedAfter`, `DealtAfterReveal`, `TableGoesOn` |
| `escrow` | 2 users with 2 chips each, 1 bot, buy-in 1, 3 requests each; 152 838 states | `ClaimsBacked`, `TableCanBeClosed`, `WealthMovesAtSettlementOnly`, `LeaversGetOut`, `AbandonedTablesClose` |
| `xp` | 1 account, 1 guest, 1 session with the window 0 each, 3 days, 2 days a week, keys live 2 days; 234 682 states | `CapsHold`, `CountersAgree`, `BoardsMatchLedger`, `OptOutIsMarked`, `MaintenanceConverges` |
| `xp_windows` | 1 guest, 1 session with windows 0 to 3, 4 days, keys live 2 days; 18 100 states | `WindowPaidOnce` |
| `preflop_option`, `closed_revived`, `rollover_stranded`, `retry_loop` | | the four disagreements below |

**Why the bounds are enough.** Three seats give a main pot, a side pot and an
uncalled part at once, and a fold that leaves dead money in each; stacks 1 and 3
around blinds 1 and 2 give a partial blind, an exact one, short all-ins and
split pots with an odd chip; since hands follow hands, stacks of up to 9 occur.
Three versions let each of two workers write, lose a race to the other and be
closed, and one request be repeated after its answer was lost. Four versions and
three faults let a hand be settled, rebought into, fail and be dealt, with a
fault on the write, on the restore after it and on one more attempt; the theorems
of section 6 remove the bounds from all of these properties except those named
there. The runs with faults bound how often the database fails because liveness
needs an end of faults; the safety proofs do not.

In `escrow`, a buy-in of one chip makes a lost pot a bust player, so rebuys, bust
leavers and hands that cannot be dealt all occur; a bankroll of two buy-ins lets a user
be refused for lack of chips; three requests are a join, its repetition and a rebuy or
a second join; two users and a bot make hands of two and of three, and leave a hand to
go on without one of them. The seven counterexamples above need no more than this.

In `xp`, days 1, 2 and 3 fall in the weeks 0, 1 and 1: the week turns once and goes on
once. A daily cap of 1 with windows worth up to 2 cuts a grant; a session cap of 2 is
above it, so that a grant bounded by the session alone would show. A guest with up to 2
points and a conversion cap of 1 loses one. One owner is enough since no action
relates two, save that a page of maintenance takes one at a time. The only window of that
run ends at 0, and such a window can be paid again at any time: awards come in any number
and order there, which more windows could only restrict. In `xp_windows` they matter:
four of them can be paid in order, skipped, repeated and overtaken, caps leave room for
two paid windows in a day and three in a session, and on four days a session whose keys
live two can expire and be written anew before a window is sent again.

Deadlock is not checked in runs where the system may rightly stop: all chips with
one player (hands), versions used up (commit). In `rollover` it is checked: a
snapshot can always be sent.

**Symmetry.** Workers, request ids and payloads are interchangeable in the
`commit` runs (`MCTableCommit`), which check safety only.

### Disagreements between the code and what the repository says

Each is a run that TLC ends with a counterexample.

* `preflop_option`. When everyone calls, the round closes before the big blind
  has acted, as every bet is matched and `currentBet > 0`.
* `closed_revived`. A write fails and so does the restore: the copy is one
  version ahead with a mutation nobody stored. An admin closes the table, which
  moves the version to exactly that number, and the next write of the worker
  passes the compare-and-swap.
* `rollover_stranded`. No fault is needed. A rebuy after the reveal deadline
  re-arms the timer for its version; it fires while another command runs and the
  rollover of the previous version waits behind it, and the constant dedupe key
  absorbs it. The old rollover then finds that its generation is gone. Nothing
  is scheduled until some client makes the server send a snapshot.
* `retry_loop`. The bounded bankroll is exhausted and too few players have chips
  without new bots. The fallback restores the table, the restore arms the timer
  with the deadline that has passed, the fallback gives up, the timer fires at
  once, and so on until someone rebuys or leaves.

Two more are exceptions that passing properties name, so that the rest could be checked:

* `BlindAllIn`, in `TurnCanAct` and `HandsEnd`. Heads-up, a dealer with at most a small
  blind posts it, is all-in and is given the turn. He has no legal action, the big blind
  may only fold, and the timeout has no default action for him: only that fold ends the
  hand. `docs/poker-human-bust-and-rebuy-analysis.md:158` supposes that he plays it.
* `Windows \ {0}`, in `WindowPaidOnce`. A request for a window that ends at 0 is paid
  each time it is repeated (section 3.5); a retry "cannot double-award the same window"
  says `docs/xp-required-session-implementation-plan.md:54`.

`LookedAfter` and `TableGoesOn` hold but for `lost`, whose second cause is
`FallbackFails`: the fallback's write fails, or the restore before or after it,
and the command returns without a retry. `NoLostUpdate` fails with
`SeatCleanup = TRUE` (a clean-up that keeps the version is undone by a worker's
next write); what that means for chips belongs to the escrow module.

## 5. Fairness

* `PokerHand!Fairness`: weak fairness of `TurnTimeout`, for the sweep of
  `server.mjs` runs on an interval. Players owe nothing.
* `SettledRollover!Fairness`: weak fairness of the commands, since the promise
  chain goes on when the database answers; strong fairness of `FireTimer`, since
  a due timer is enabled only while a command awaits, and the event loop returns
  to timers between commands however many there are; strong fairness of
  `resync /\ Snapshot`, since a client told to resync does. No fairness on
  players, loads or other snapshots. `NoPermanentRetryLoop` supposes in its
  premise that the server is left alone.
* `Escrow!Fairness`: weak fairness of `Settle` (bots and turn timers play a hand to its
  end), `DeferredLeaves` (the rollover of a settled hand), `GraceEnds` (a timer) and of
  the janitor's two visits, `Sweep` and `Visited`, which run on an interval over every
  open table. Nobody has to join, connect, bet or leave. The janitor does not see a
  player flagged as having left (`table-janitor.mjs` 173), so neither does `Visited`.
* `XpLedger!Rerun`: strong fairness of the two steps of backfill and of prune, for each
  owner. It is the administrator who is fair: `docs/operations.md` has every page run
  again until it converges, and after a failure. `MaintenanceConverges` supposes in
  its premise that owners stop changing their minds; awards end
  because the days of the model do, and each has its cap.
* `TableCommit` states no liveness: a worker may crash at any time for good.

## 6. The proofs

Proved by TLAPS for every value of the constants, from the assumptions of the
modules: `SeatsAssumption`, `BotsAssumption`, `BlindsAssumption` (blinds are what
`normalizeHandStakes` accepts), `BuyInsAssumption`, `RanksAssumption` (a strength is a
number), `BoundAssumption`, `EnvironmentAssumption`, `RolloverAssumption`,
`EscrowAssumption`, `XpAssumption` and the `NoneAssumption`s. Every invariant and every
action property that a passing run checks, and both refinements, are theorems; some
suppose that an environment behaves (`Benign`) or that chips are not lost in the ways
section 3.4 names (`NothingLost`), as said below.

* **`SumProofs`**: what `SumFunction` does when a value changes, two functions are
  added, a domain is split or extended, all values are zero, equal or bounded. The
  library's induction theorems take an operator, which the provers cannot instantiate;
  here induction is stated for a set of subsets, through the well-founded ordering of
  strict inclusion, and the recursive function behind the community modules' fold is
  shown to exist, one cardinality at a time. Everything about sums in the other
  modules cites these lemmas.
* **`PokerSettlementProofs`**: `AwardsAddUp` and `AwardBounded`, for any contributions,
  folds and strengths. The chips are counted twice: a band between two levels holds
  the same number of chips of each of its contributors, so the bands up to a level are
  what every seat put in below it. That settles both that the pots hold what was put
  in, less what is returned, and what the pots open to one player can hold.

* **`PokerHandProofs`**: `HandTypes`, `HandAccounted`, `StreetsAlwaysStartEven`,
  `TurnAlwaysActs`, `ChipsAlwaysConserved`, `NobodyOverclaims`, `ShowdownsPayChips`,
  `ImplementsHandStakes`. `TurnCanAct` is not inductive: that the next street has
  someone to act depends on who was in the hand and on the bets being accounted for.
  The invariant is `Good(hand)`: type, accounting, even streets, the pot being the sum
  of the contributions (`Staked`), and the turn; between hands, that the pot is empty
  and who won could claim it (`PaidOut`). It is stated for any hand value, so that
  what an action builds step by step (`PutIn`, then `Progress`) can be followed by a
  lemma for each operator: `Midway` is what holds between the chips going in and the
  streets being closed, `Follows` what the rest of the reducer may make of it, the
  same chips and players with another turn or street, or a fair payment. Each action
  is then a step of `HandStakes` by one lemma, `ActionFollows`.
* **`TableCommitProofs`**: `TypeCorrect`, `AcceptedDurable` and `VersionsNeverShared`,
  whatever fails. The row of a request is written once and only together with the
  mutation it names, so what a worker is about to answer is either in the row or about
  to be put there. No row is ahead of the stored version (`RowsBehind`), and a write
  that adds one moves it.
* **`TableHistoryProofs`**, for `Benign == ~RestoresFail /\ ~SeatCleanup`:
  `HistoryKept`, `RowsInPlace`, `ClosedForGood`, `ImplementsDurableTable`. The
  invariant `HistoryInv` says that the version counts the mutations and that every
  copy, less the mutation being written, is a prefix of the history; so a
  compare-and-swap that succeeds appends just that mutation. `closed_revived` shows
  that the first half of `Benign` is needed.
* **`SettledRolloverProofs`**: `RolloverTypes`, `HandsDurable`, `DealtOnce`,
  `AlwaysLookedAfter`, with any number of commands, faults and versions. `IInv`
  relates the copy to the stored table (`SameHand`: a copy that does not know the
  current hand is an old settled one), the running command to the copy
  (`PcFits`, `Underway`), the published settlement to it (`Shown`) and the timer to
  it (`TimerCurrent`). `Watched` strengthens `LookedAfter`: what looks at the table
  next is a timer, a resync, a running command or a queued one that will not
  be refused. `LookedAfter` alone says nothing while the queue holds a rollover
  that is going to be refused.

* **`EscrowProofs`**, for `NothingLost`, the Cases in which chips are neither lost nor
  made: `EscrowTypeCorrect`, `EscrowBacksClaims`, `WealthMovesOnlyAtSettlement`; with no
  case at all, `OpenTableCanBeClosed`. `ClaimsBacked` is a sum and says nothing of who
  has what, so `ChipsInv` is about the parts: a stack has an entry and an ACTIVE row,
  bets lie only where a hand is played and who can still win it was dealt in, no
  key of a request that is still to be made is posted, and a request that may be sent
  again belongs to somebody seated. Hence no transaction finds its key used by another
  seat's history, which is what the cases `late_retry` and `second_cleanup` are about.
* **`XpLedgerProofs`**: `CapsAlwaysHold`, `WindowsPaidOnce`, `OptOutAlwaysMarked`,
  `XpTypeCorrect`, `CountersAlwaysAgree`, `BoardsAlwaysMatch`. The first two share
  `LedgerInv`: types, caps, and `PaidIsReached`, that a window paid in the last
  `SessionDays` days is not beyond `lastSync` and the session's keys were written since, so
  that they cannot have expired; hence a new window that ends after 0 was not paid in
  that time (`NewIsUnpaid`). The third
  needs to know how far a change has come: who is being hidden has the marker already,
  who is being shown is visible already (`MarkInv`). The last three rest on `BooksInv`:
  the counters agree account by account (`Books`) and nothing is granted for a day to
  come (`NothingAhead`), so that a week's score, a sum over days, moves with an
  increment as if it were computed anew, and a new day starts from nothing. What
  `Expire` takes from a session counter is counted in `forgotten`. All of this supposes
  `XpAssumption`, of which section 3.5 says what it leaves out.

Only model-checked: liveness under fairness (`HandsEnd`, `TableGoesOn`, `LeaversGetOut`,
`AbandonedTablesClose`, `MaintenanceConverges`), out of the prover's reach, and the four
disagreements, which are counterexamples.

## 7. Not modelled

* Poker: bot replacement between hands and the accounts it is funded from, guest tables,
  managed bot tables and their rotation, quarantine, the close of a table without active
  humans in the rollover (planned, 7 and 8 above); the hole cards, audits and fundings
  written in the same transaction as the state, which succeed or fail with it.
* Sessions, resume and stream sequence numbers, bootstrap validation, retention: planned.
* Ledger archive, key registry pruning, bonuses and campaigns: planned.
* XP: the size of an award (combo, boosts, activity), server session tokens, rate limits,
  accounts' ids sent as guests' (section 3.5), two visibility changes of one owner at
  once. The last one can delete the marker of a hidden owner: an opt-in whose final step comes after another tab's opt-out.
* Read models are pure projections, the browser clients are the environment, games, pages
  and scripts share no state.
