-------------------------- MODULE SettledRollover --------------------------
(***************************************************************************)
(* From a settled hand to the next one, at one cash table of one WS        *)
(* process: the timer of the table, the command queue it feeds, and the    *)
(* rollover command with its retries and its fallback (server.mjs).        *)
(*                                                                         *)
(* Commands run one at a time.  Up to its first wait for the database a    *)
(* command runs at once, no timer fires and no message is read in between; *)
(* so does what follows each answer of the database.  pc is what the       *)
(* running command, the head of the queue, is waiting for.                 *)
(*                                                                         *)
(* Abstracted: how a hand is played (one ACT settles it, PokerHand has the *)
(* rest), who sits where (do enough players have chips, only once bust     *)
(* bots are replaced, or not at all), delays (a timer fires at any time).  *)
(* Not here: guest tables, managed bot tables and their rotation, tables   *)
(* without an active human, other processes (TableCommit has several).     *)
(***************************************************************************)
EXTENDS Integers, Sequences

CONSTANTS
  None,
  Bounded,        \* is bot funding drawn from the bounded bankroll?
  MaxVersion,     \* bound on the versions made by players and admins
  MaxQueue,       \* bound on the commands of the table not finished
  MaxFaults       \* how often the database fails

ASSUME RolloverAssumption ==
  Bounded \in BOOLEAN /\ MaxVersion \in Nat /\ MaxQueue \in Nat /\ MaxFaults \in Nat

VARIABLES
  db,         \* the stored table
  copy,       \* the runtime table, None when it is not loaded
  revealed,   \* the hand whose settlement was published, 0 when none was
  timer,      \* settledRolloverTimerByTableId
  queue,      \* the commands of the table, the first one is running
  pc,
  resync,     \* clients were told to resync
  faults,
  lost        \* a wake-up was lost and no timer set since (history variable)

vars == <<db, copy, revealed, timer, queue, pc, resync, faults, lost>>

Phases == {"LIVE", "SETTLED", "CLOSED"}
Players == {"enough", "with_bots", "too_few"}
Table == [version: Nat, phase: Phases, hand: Nat, players: Players, leaving: BOOLEAN]
Timer == [generation: Nat, retry: BOOLEAN]
ASSUME NoneAssumption == None \notin Table \cup Timer

(* The table that follows t: every write moves the version by one.         *)
After(t, phase, hand, players, leaving) ==
  [version |-> t.version + 1, phase |-> phase, hand |-> hand, players |-> players,
   leaving |-> leaving]

Command(kind) == [kind |-> kind, generation |-> 0]
RolloverOf(generation) == [kind |-> "rollover", generation |-> generation]
Commands == [kind: {"act", "rebuy", "bot_step", "rollover"}, generation: Nat]
Waits == {"nothing", "act", "act_write", "act_restore", "rebuy", "rebuy_restore",
          "leaves", "leaves_restore", "write", "restore",
          "fallback_restore", "fallback_write", "fallback_install"}

Init ==
  /\ db = [version |-> 1, phase |-> "LIVE", hand |-> 1, players |-> "enough",
           leaving |-> FALSE]
  /\ copy = None /\ revealed = 0 /\ timer = None
  /\ queue = <<>> /\ pc = "nothing"
  /\ resync = FALSE /\ faults = 0 /\ lost = FALSE

----------------------------------------------------------------------------
(***************************************************************************)
(* The timer.                                                              *)
(***************************************************************************)
Settled(c) == c # None /\ c.phase = "SETTLED"

(* Mutant: the generation of a restored table is not looked at.            *)
RevealTimerKept(c, hand) ==
  IF ~(Settled(c) /\ hand = c.hand) THEN None
  ELSE IF timer # None THEN timer ELSE [generation |-> c.version, retry |-> FALSE]

(* maybeScheduleSettledRollover once the settlement of hand was published. *)
(* A timer of this generation with this deadline is kept: it is the same.  *)
RevealTimer(c, hand) ==
  IF Settled(c) /\ hand = c.hand
  THEN [generation |-> c.version, retry |-> FALSE] ELSE None

(* scheduleSettledRolloverRetry, with copy c in place and timer t running. *)
RetryTimer(c, generation, t) ==
  IF Settled(c) /\ c.version = generation
  THEN [generation |-> generation, retry |-> TRUE] ELSE t

SetTimer(t) == timer' = t /\ lost' = (lost /\ t = None)

(* Mutant: a hand that is not settled leaves no deadline at all.           *)
PublishedOrNone(c) == IF Settled(c) THEN c.hand ELSE None

(* What the table is after it was broadcast, or sent in a snapshot. *)
Published(c) == IF Settled(c) THEN c.hand ELSE 0
Publish(c) == revealed' = Published(c) /\ SetTimer(RevealTimer(c, Published(c)))

----------------------------------------------------------------------------
(***************************************************************************)
(* The queue (table-command-queue.mjs).                                    *)
(***************************************************************************)
Running == queue[1]
Runs(kind, wait) == queue # <<>> /\ Running.kind = kind /\ pc = wait
Yields == pc # "nothing" \/ queue = <<>>      \* timers and messages get a turn
Rollovers == {i \in DOMAIN queue : queue[i].kind = "rollover"}

Wait(what) == pc' = what /\ UNCHANGED queue
Done == pc' = "nothing" /\ queue' = Tail(queue)

(* createBotAutoplayCascadeScheduler: one bot step of a table at a time.   *)
DoneAndBotStep ==
  /\ pc' = "nothing"
  /\ queue' = IF \E i \in DOMAIN queue : queue[i].kind = "bot_step"
              THEN Tail(queue) ELSE Append(Tail(queue), Command("bot_step"))

Fault == faults < MaxFaults /\ faults' = faults + 1
NoFault == UNCHANGED faults

----------------------------------------------------------------------------
(***************************************************************************)
(* What comes from outside the queue.                                      *)
(***************************************************************************)

(* The timer fires.  A rollover not finished yet absorbs the new one; if   *)
(* it is of another generation and has not begun, the wake-up is lost.     *)
FireTimer ==
  /\ Yields
  /\ timer # None
  /\ timer' = None
  /\ IF Rollovers = {}
     THEN queue' = Append(queue, RolloverOf(timer.generation)) /\ UNCHANGED lost
     ELSE /\ UNCHANGED queue
          /\ lost' = \A i \in Rollovers : i # 1 /\ queue[i].generation # timer.generation
  /\ UNCHANGED <<db, copy, revealed, pc, resync, faults>>

(* A player sends an ACT or buys in again. *)
Ask(kind) ==
  /\ Yields
  /\ copy # None
  /\ Len(queue) < MaxQueue
  /\ queue' = Append(queue, Command(kind))
  /\ UNCHANGED <<db, copy, revealed, timer, pc, resync, faults, lost>>

(* The table is loaded for a client, who gets a snapshot of it. *)
Load ==
  /\ Yields
  /\ copy = None
  /\ copy' = db
  /\ Publish(db)
  /\ UNCHANGED <<db, queue, pc, resync, faults>>

(* A snapshot is sent or broadcast, on resync or for any other reason.     *)
Snapshot ==
  /\ Yields
  /\ copy # None
  /\ Publish(copy)
  /\ resync' = FALSE
  /\ UNCHANGED <<db, copy, queue, pc, faults>>

(* The process stops. *)
Crash ==
  /\ copy # None
  /\ copy' = None /\ revealed' = 0 /\ timer' = None
  /\ queue' = <<>> /\ pc' = "nothing" /\ resync' = FALSE /\ lost' = FALSE
  /\ UNCHANGED <<db, faults>>

(* executeTerminalPokerCloseInTx by an admin. *)
ForceClose ==
  /\ db.phase # "CLOSED"
  /\ db.version < MaxVersion
  /\ db' = After(db, "CLOSED", db.hand, db.players, FALSE)
  /\ UNCHANGED <<copy, revealed, timer, queue, pc, resync, faults, lost>>
----------------------------------------------------------------------------
(***************************************************************************)
(* ACT, rebuy and the bot step.                                            *)
(***************************************************************************)
BeginAct ==
  /\ Runs("act", "nothing")
  /\ Wait("act")
  /\ UNCHANGED <<db, copy, revealed, timer, resync, faults, lost>>

(* The ACT that ends the hand is applied to the copy, which is ahead of    *)
(* the database until it is stored.  Some players may be bust, some may    *)
(* have asked to leave after the hand.                                     *)
ActApplied ==
  /\ Runs("act", "act")
  /\ copy # None /\ copy.phase = "LIVE"
  /\ copy.version < MaxVersion
  /\ \E players \in Players, leaving \in BOOLEAN :
       copy' = After(copy, "SETTLED", copy.hand, players, leaving)
  /\ Wait("act_write")
  /\ UNCHANGED <<db, revealed, timer, resync, faults, lost>>

StoreAct ==
  /\ Runs("act", "act_write")
  /\ copy.version = db.version + 1
  /\ db' = copy

ActStored ==
  /\ StoreAct
  /\ Publish(copy)
  /\ DoneAndBotStep
  /\ UNCHANGED <<copy, resync, faults>>

(* Committed, but the process is told it failed: the copy is restored.     *)
ActUnheard ==
  /\ StoreAct
  /\ Fault
  /\ Wait("act_restore")
  /\ UNCHANGED <<copy, revealed, timer, resync, lost>>

(* The stored table moved, or the database fails: the copy is restored.    *)
ActFails ==
  /\ Runs("act", "act_write")
  /\ IF copy.version # db.version + 1 THEN NoFault ELSE Fault
  /\ Wait("act_restore")
  /\ UNCHANGED <<db, copy, revealed, timer, resync, lost>>

(* An ACT nobody may make now: refused, after its record was looked up.    *)
ActRefused ==
  /\ Runs("act", "act")
  /\ Done
  /\ UNCHANGED <<db, copy, revealed, timer, resync, faults, lost>>

BeginRebuy ==
  /\ Runs("rebuy", "nothing")
  /\ Wait("rebuy")
  /\ UNCHANGED <<db, copy, revealed, timer, resync, faults, lost>>

StoreRebuy ==
  /\ Runs("rebuy", "rebuy")
  /\ db.phase # "CLOSED"
  /\ db.version < MaxVersion
  /\ \E players \in {"enough", "with_bots"} :
       db' = After(db, db.phase, db.hand, players, db.leaving)

RebuyStored ==
  /\ StoreRebuy
  /\ Wait("rebuy_restore")
  /\ UNCHANGED <<copy, revealed, timer, resync, faults, lost>>

(* Committed, but the process is told it failed: the player is refused and *)
(* the copy stays as it is.                                                *)
RebuyUnheard ==
  /\ StoreRebuy
  /\ Fault
  /\ Done
  /\ UNCHANGED <<copy, revealed, timer, resync, lost>>

RebuyRefused ==
  /\ Runs("rebuy", "rebuy")
  /\ Done
  /\ UNCHANGED <<db, copy, revealed, timer, resync, faults, lost>>

(* handleRebuyCommand goes on; so does recoverFromPersistConflict after an *)
(* ACT, but for the bot step.                                              *)
Restored ==
  \/ /\ Runs("rebuy", "rebuy_restore") /\ DoneAndBotStep
     /\ copy' = db /\ Publish(db)
     /\ UNCHANGED <<db, resync, faults>>
  \/ /\ Runs("act", "act_restore") /\ Done
     /\ copy' = db /\ Publish(db)
     /\ UNCHANGED <<db, resync, faults>>

RestoreFails ==
  /\ Runs("rebuy", "rebuy_restore") \/ Runs("act", "act_restore")
  /\ Fault
  /\ Done
  /\ resync' = TRUE
  /\ UNCHANGED <<db, copy, revealed, timer, lost>>

(* runBotStep of a table that is not in a hand only looks at the timer.    *)
BotStep ==
  /\ Runs("bot_step", "nothing")
  /\ Done
  /\ SetTimer(RevealTimer(copy, revealed))
  /\ revealed' = IF Settled(copy) THEN revealed ELSE 0
  /\ UNCHANGED <<db, copy, resync, faults>>

----------------------------------------------------------------------------
(***************************************************************************)
(* The rollover (runSettledRolloverCommand).                               *)
(***************************************************************************)
Generation == Running.generation

Begin ==
  /\ Runs("rollover", "nothing")
  /\ IF Settled(copy) /\ copy.version = Generation THEN Wait("leaves") ELSE Done
  /\ UNCHANGED <<db, copy, revealed, timer, resync, faults, lost>>

RetryLater == SetTimer(RetryTimer(copy, Generation, timer))

LeavesFail ==
  /\ Runs("rollover", "leaves")
  /\ Fault
  /\ RetryLater
  /\ Done
  /\ UNCHANGED <<db, copy, revealed, resync>>

(* prepareSettledHandRollover of copy c, bots funded.                      *)
Prepare(c) == IF c.players = "too_few" THEN Done ELSE Wait("write")

NoLeaves ==
  /\ Runs("rollover", "leaves")
  /\ db.phase # "CLOSED"
  /\ db.phase = "SETTLED" => ~db.leaving
  /\ Prepare(copy)
  /\ UNCHANGED <<db, copy, revealed, timer, resync, faults, lost>>

(* Deferred leavers are paid out; the last human of a table closes it.     *)
StoreLeaves ==
  /\ Runs("rollover", "leaves")
  /\ db.phase = "SETTLED" /\ db.leaving
  /\ \E players \in Players, phase \in {"SETTLED", "CLOSED"} :
       db' = After(db, phase, db.hand, players, FALSE)

LeavesStored ==
  /\ StoreLeaves
  /\ Wait("leaves_restore")
  /\ UNCHANGED <<copy, revealed, timer, resync, faults, lost>>

(* Committed, but the process is told it failed. *)
LeavesUnheard ==
  /\ StoreLeaves
  /\ Fault
  /\ RetryLater
  /\ Done
  /\ UNCHANGED <<copy, revealed, resync>>

AlreadyClosed ==
  /\ Runs("rollover", "leaves")
  /\ db.phase = "CLOSED"
  /\ Wait("leaves_restore")
  /\ UNCHANGED <<db, copy, revealed, timer, resync, faults, lost>>

(* syncCleanupRuntimeState, after which the rollover goes on.              *)
LeavesRestored ==
  /\ Runs("rollover", "leaves_restore")
  /\ copy' = db
  /\ Publish(db)
  /\ IF Settled(db) THEN Prepare(db) ELSE Done
  /\ UNCHANGED <<db, resync, faults>>

(* Nobody is connected to the closed table: it is evicted. *)
Evicted ==
  /\ Runs("rollover", "leaves_restore")
  /\ db.phase = "CLOSED"
  /\ copy' = None
  /\ Done
  /\ UNCHANGED <<db, revealed, timer, resync, faults, lost>>

LeavesRestoreFails ==
  /\ Runs("rollover", "leaves_restore")
  /\ Fault
  /\ RetryLater
  /\ Done
  /\ UNCHANGED <<db, copy, revealed, resync>>

(* A hand is named after the version that deals it (nextHandId).           *)
Dealt == After(copy, "LIVE", copy.version + 1, copy.players, copy.leaving)

(* The write compares versions, and projects the stack of every human seat *)
(* still active: there is none at a closed table.                          *)
CanDeal == db.version = copy.version /\ db.phase # "CLOSED"

(* Mutant: the write does not compare versions.                            *)
DealBlind ==
  /\ Runs("rollover", "write")
  /\ db.phase # "CLOSED"
  /\ db' = Dealt
  /\ copy' = Dealt
  /\ Publish(Dealt)
  /\ DoneAndBotStep
  /\ UNCHANGED <<resync, faults>>

(* The write commits; then commitSettledHandRollover installs the hand.    *)
Deal ==
  /\ Runs("rollover", "write")
  /\ CanDeal
  /\ db' = Dealt
  /\ copy' = Dealt
  /\ Publish(Dealt)
  /\ DoneAndBotStep
  /\ UNCHANGED <<resync, faults>>

(* Committed, but the process is told it failed. *)
DealUnheard ==
  /\ Runs("rollover", "write")
  /\ CanDeal
  /\ Fault
  /\ db' = Dealt
  /\ Wait("restore")
  /\ UNCHANGED <<copy, revealed, timer, resync, lost>>

(* Mutant: the hand is installed before the write, and the write fails.    *)
DealFailsInstalled ==
  /\ Runs("rollover", "write")
  /\ IF CanDeal THEN Fault ELSE NoFault
  /\ copy' = Dealt
  /\ Wait("restore")
  /\ UNCHANGED <<db, revealed, timer, resync, lost>>

DealFails ==
  /\ Runs("rollover", "write")
  /\ IF CanDeal THEN Fault ELSE NoFault
  /\ Wait("restore")
  /\ UNCHANGED <<db, copy, revealed, timer, resync, lost>>

(* Mutant: no retry is scheduled after a restore.                          *)
RecoverOnly ==
  /\ Runs("rollover", "restore")
  /\ copy' = db
  /\ revealed' = Published(db)
  /\ SetTimer(None)
  /\ Done
  /\ UNCHANGED <<db, resync, faults>>

(* recoverFromPersistConflict, then a retry if the generation is the same. *)
Recover ==
  /\ Runs("rollover", "restore")
  /\ copy' = db
  /\ revealed' = Published(db)
  /\ SetTimer(RetryTimer(db, Generation, RevealTimer(db, Published(db))))
  /\ Done
  /\ UNCHANGED <<db, resync, faults>>

RecoverFails ==
  /\ Runs("rollover", "restore")
  /\ Fault
  /\ resync' = TRUE
  /\ RetryLater
  /\ Done
  /\ UNCHANGED <<db, copy, revealed>>

----------------------------------------------------------------------------
(***************************************************************************)
(* The bounded bankroll is exhausted: deal the hand without new bots.      *)
(***************************************************************************)
Exhausted ==
  /\ Bounded
  /\ Runs("rollover", "write")
  /\ CanDeal
  /\ timer' = None
  /\ Wait("fallback_restore")
  /\ UNCHANGED <<db, copy, revealed, resync, faults, lost>>

(* Restoring looks at the timer; the deadline it finds has passed already. *)
FallbackRestored ==
  /\ Runs("rollover", "fallback_restore")
  /\ copy' = db
  /\ SetTimer(RevealTimer(db, revealed))
  /\ revealed' = IF Settled(db) THEN revealed ELSE 0
  /\ IF Settled(db) /\ db.players = "enough" THEN Wait("fallback_write") ELSE Done
  /\ UNCHANGED <<db, resync, faults>>

FallbackDealt ==
  /\ Runs("rollover", "fallback_write")
  /\ CanDeal
  /\ db' = Dealt
  /\ Wait("fallback_install")
  /\ UNCHANGED <<copy, revealed, timer, resync, faults, lost>>

FallbackInstalled ==
  /\ Runs("rollover", "fallback_install")
  /\ copy' = db
  /\ Publish(db)
  /\ DoneAndBotStep
  /\ UNCHANGED <<db, resync, faults>>

(* Whatever fails on the way, the command ends there. *)
FallbackFails ==
  /\ \/ Runs("rollover", "fallback_restore") /\ Fault
     \/ Runs("rollover", "fallback_install") /\ Fault
     \/ /\ Runs("rollover", "fallback_write")
        /\ IF CanDeal THEN Fault ELSE NoFault
  /\ Done
  /\ lost' = (timer = None)
  /\ UNCHANGED <<db, copy, revealed, timer, resync>>

----------------------------------------------------------------------------
RunCommand ==
  \/ BeginAct \/ ActApplied \/ ActStored \/ ActUnheard \/ ActFails \/ ActRefused
  \/ BeginRebuy \/ RebuyStored \/ RebuyUnheard \/ RebuyRefused
  \/ Restored \/ RestoreFails
  \/ BotStep
  \/ Begin \/ LeavesFail \/ NoLeaves \/ LeavesStored \/ LeavesUnheard \/ AlreadyClosed
  \/ LeavesRestored \/ Evicted \/ LeavesRestoreFails
  \/ Deal \/ DealUnheard \/ DealFails \/ Recover \/ RecoverFails
  \/ Exhausted \/ FallbackRestored \/ FallbackDealt \/ FallbackInstalled
  \/ FallbackFails

Next ==
  \/ RunCommand
  \/ FireTimer
  \/ \E kind \in {"act", "rebuy"} : Ask(kind)
  \/ Load \/ Snapshot \/ Crash \/ ForceClose

(* Commands are run.  A timer that is due fires and a client told to       *)
(* resync does so, even if commands keep starting: each of them waits for  *)
(* the database, and the event loop comes back to timers and messages.     *)
(* Nobody owes the table a message, a load or a snapshot otherwise.        *)
Fairness ==
  /\ WF_vars(RunCommand)
  /\ SF_vars(FireTimer)
  /\ SF_vars(resync /\ Snapshot)

Spec == Init /\ [][Next]_vars
FairSpec == Spec /\ Fairness

----------------------------------------------------------------------------
(***************************************************************************)
(* Properties.                                                             *)
(***************************************************************************)

TypeOK ==
  /\ db \in Table /\ copy \in Table \cup {None}
  /\ revealed \in Nat /\ timer \in Timer \cup {None}
  /\ queue \in Seq(Commands) /\ pc \in Waits
  /\ resync \in BOOLEAN /\ faults \in Nat
  /\ lost \in BOOLEAN

(* A hand is installed, shown to players and played by bots only once the  *)
(* transaction that deals it committed.                                    *)
HandIsDurable == copy # None => copy.hand <= db.hand

(* A copy whose ACT was lost with its restore may reach the version of a   *)
(* stored table it does not know (TableCommit, ClosedStaysClosed).         *)
Collided == copy.version = db.version /\ copy # db

(* The next hand is dealt once, over the settled hand it follows: not over *)
(* a hand dealt meanwhile, whose acknowledgement was lost, nor over a      *)
(* closed table.  The settlement was published before, except to clients   *)
(* who still have to resync because a restore failed.                      *)
DealtAfterReveal ==
  [][db'.hand # db.hand =>
       /\ Settled(copy) /\ copy.hand = db.hand
       /\ db.phase = "SETTLED" \/ (db.phase = "LIVE" /\ Collided)
       /\ revealed = db.hand \/ resync]_vars

(* Nothing is left that would make the server look at this settled table.  *)
Stranded ==
  /\ Settled(copy) /\ copy.players # "too_few"
  /\ timer = None /\ queue = <<>> /\ ~resync

(* A settled table that can go on is looked after, whatever fails, but for *)
(* the two ways to lose a wake-up: a rollover that waits its turn absorbs  *)
(* the timer of a later generation, or the bounded fallback fails.         *)
LookedAfter == Stranded => lost

(* But for those, and once faults end, the next hand is dealt.             *)
CanGoOn ==
  /\ Settled(copy)
  /\ copy.players = "enough" \/ (copy.players = "with_bots" /\ ~Bounded)

TableGoesOn == CanGoOn ~> (~CanGoOn \/ lost)

(***************************************************************************)
(* What the repository says and the code does not do.                      *)
(***************************************************************************)

(* A changed generation replaces the schedule, and no outage strands an    *)
(* active table (docs/poker-bot-replacement-escrow-funding-plan.md).       *)
NeverStranded == ~Stranded

(* An exhausted bankroll does not schedule a permanent retry loop          *)
(* (docs/poker-deployment.md): left to itself, the server comes to rest.   *)
LeftAlone == <>[][RunCommand \/ FireTimer]_vars
NoPermanentRetryLoop == LeftAlone => <>[](timer = None)
=============================================================================
