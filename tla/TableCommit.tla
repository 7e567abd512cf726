---------------------------- MODULE TableCommit ----------------------------
(***************************************************************************)
(* One table, the WS workers that hold it in memory and the database row   *)
(* that is its durable state.  A worker runs one command of the table at a *)
(* time (its command queue): it changes its copy first, then writes it     *)
(* with a compare-and-swap of the version, together with the durable       *)
(* record of the ACT request, and restores its copy from the database when *)
(* that fails.  Every await is a step of its own, the other workers, the   *)
(* admin functions and a crash come in between.                            *)
(*   ApplyAct, Replay       handleActCommand up to persistMutatedState     *)
(*   ApplyTimeout           handleTurnTimeoutCommand                       *)
(*   StartHand              handleStartHandCommand                         *)
(*   Commit .. WriteFails   writeMutation / writeViaDb, and what the       *)
(*                          handlers do with each outcome                  *)
(*   Restore, RestoreLost   restoreTableFromPersisted                      *)
(* A table state is the list of mutations that made it.  Whether a mutation*)
(* is legal is up to PokerHand: here any may be, and refusals, which       *)
(* change nothing, are left out, and so are guest tables, which have no    *)
(* durable state.  Broadcasts and scheduling of bots follow the answers.   *)
(***************************************************************************)
EXTENDS Integers, Sequences

CONSTANTS
  Workers,        \* WS server processes
  Ids,            \* request ids a player may send, again and again
  Payloads,       \* what he may send under them
  Clocks,         \* what distinguishes two timeouts or two deals
  None,
  MaxVersion,     \* bound on the version of the table
  RestoresFail,   \* may a worker fail to read the table back?
  SeatCleanup     \* may an admin clean up a seat, keeping the version?

ASSUME BoundAssumption == MaxVersion \in Nat
ASSUME EnvironmentAssumption == RestoresFail \in BOOLEAN /\ SeatCleanup \in BOOLEAN

VARIABLES
  db,       \* poker_state, the ACT rows of poker_requests, is the table CLOSED
  worker,   \* each worker's runtime table and its running command
  accepted  \* the ACTs answered "accepted", with the version each got

vars == <<db, worker, accepted>>

Acts == [kind: {"act"}, id: Ids, stamp: Payloads]
Own(kind) == [kind: {kind}, id: {None}, stamp: Clocks]
Outside(kind) == [kind |-> kind, id |-> None, stamp |-> None]
Entries == Acts \cup Own("timeout") \cup Own("start_hand")
             \cup {Outside("close"), Outside("cleanup")}

Results == [entry: Acts, version: Nat]

ASSUME NoneAssumption == None \notin Ids \cup Payloads \cup Clocks \cup Results

Database == [version: Nat, log: Seq(Entries),
             requests: [Ids -> Results \cup {None}], closed: BOOLEAN]

Worker == [pc: {"unloaded", "idle", "persist", "restore"},
           version: Nat, log: Seq(Entries),     \* coreState
           persisted: Nat,                      \* persistedStateVersion
           reply: Results \cup {None}]          \* to send once restored

Unloaded == [pc |-> "unloaded", version |-> 0, log |-> <<>>, persisted |-> 0,
             reply |-> None]

Init ==
  /\ db = [version |-> 0, log |-> <<>>, requests |-> [id \in Ids |-> None],
           closed |-> FALSE]
  /\ worker = [w \in Workers |-> Unloaded]
  /\ accepted = {}

----------------------------------------------------------------------------
IsClosed(log) == \E i \in DOMAIN log : log[i].kind = "close"
Pending(w) == worker[w].log[Len(worker[w].log)]      \* the entry being written
IsAct(e) == e.kind = "act"
Result(e, v) == [entry |-> e, version |-> v]

(* The version a write expects to replace: the one the copy had before the *)
(* mutation, or, to deal a hand, the last one known to be stored.          *)
Expected(w) == IF Pending(w).kind = "start_hand" THEN worker[w].persisted
               ELSE worker[w].version - 1

(* The copy of the table a worker reads from the database. *)
Copied(w) == [worker[w] EXCEPT !.pc = "idle", !.version = db.version,
                               !.log = db.log, !.persisted = db.version,
                               !.reply = None]

(* ensureTableLoaded, on the first command after a start, or an eviction.  *)
Load(w) ==
  /\ worker[w].pc = "unloaded"
  /\ worker' = [worker EXCEPT ![w] = Copied(w)]
  /\ UNCHANGED <<db, accepted>>

(* The reducer accepts mutation e: the copy changes before it is written.  *)
Apply(w, e) ==
  /\ worker[w].pc = "idle"
  /\ ~IsClosed(worker[w].log)
  /\ worker[w].version < MaxVersion
  /\ worker' = [worker EXCEPT ![w].pc = "persist", ![w].version = @ + 1,
                              ![w].log = Append(@, e)]
  /\ UNCHANGED <<db, accepted>>

(* Mutant: a replay answers with the version the table has now.            *)
ReplayAtCurrentVersion(w, e) ==
  /\ worker[w].pc = "idle"
  /\ db.requests[e.id] # None /\ db.requests[e.id].entry = e
  /\ accepted' = accepted \cup {Result(e, db.version)}
  /\ UNCHANGED <<db, worker>>

(* The request has a row already: its result is sent again, or, if it was  *)
(* another payload, the command is refused, which changes nothing.         *)
Replay(w, e) ==
  /\ worker[w].pc = "idle"
  /\ db.requests[e.id] # None /\ db.requests[e.id].entry = e
  /\ accepted' = accepted \cup {db.requests[e.id]}
  /\ UNCHANGED <<db, worker>>

ApplyAct(w, e) == db.requests[e.id] = None /\ Apply(w, e)

ApplyTimeout(w, e) == Apply(w, e)

StartHand(w, e) == Apply(w, e)

----------------------------------------------------------------------------
(***************************************************************************)
(* The write, one transaction.                                             *)
(***************************************************************************)
Reserved(e) == IsAct(e) => db.requests[e.id] = None

(* Mutant: the row says which version the ACT replaced, not which it made. *)
WrittenAtOldVersion(w) ==
  [db EXCEPT !.version = @ + 1, !.log = worker[w].log,
             !.requests = [id \in Ids |->
                IF IsAct(Pending(w)) /\ Pending(w).id = id
                THEN Result(Pending(w), Expected(w)) ELSE @[id]]]

Written(w) ==
  [db EXCEPT !.version = @ + 1, !.log = worker[w].log,
             !.requests = [id \in Ids |->
                IF IsAct(Pending(w)) /\ Pending(w).id = id
                THEN Result(Pending(w), Expected(w) + 1) ELSE @[id]]]

(* Mutant: the write does not compare the version.                         *)
CanCommitBlind(w) == worker[w].pc = "persist" /\ Reserved(Pending(w))

CanCommit(w) ==
  /\ worker[w].pc = "persist"
  /\ Reserved(Pending(w))
  /\ db.version = Expected(w)

Commit(w) ==
  /\ CanCommit(w)
  /\ db' = Written(w)
  /\ worker' = [worker EXCEPT ![w].pc = "idle", ![w].persisted = db.version + 1]
  /\ accepted' = IF IsAct(Pending(w))
                 THEN accepted \cup {Result(Pending(w), Expected(w) + 1)}
                 ELSE accepted

(* The transaction commits and the worker is told it failed. *)
CommitUnheard(w) ==
  /\ CanCommit(w)
  /\ db' = Written(w)
  /\ worker' = [worker EXCEPT ![w].pc = "restore"]
  /\ UNCHANGED accepted

(* Mutant: the answer is this worker's result, whatever the record says.   *)
LostToRequestOwnReply(w) ==
  /\ worker[w].pc = "persist"
  /\ ~Reserved(Pending(w))
  /\ worker' = [worker EXCEPT ![w].pc = "restore",
                   ![w].reply = Result(Pending(w), Expected(w) + 1)]
  /\ UNCHANGED <<db, accepted>>

(* Another worker recorded the request: its result is the answer, after a  *)
(* restore; with another payload the answer is a refusal.                  *)
LostToRequest(w) ==
  /\ worker[w].pc = "persist"
  /\ ~Reserved(Pending(w))
  /\ LET row == db.requests[Pending(w).id]
     IN  worker' = [worker EXCEPT ![w].pc = "restore",
                      ![w].reply = IF row.entry = Pending(w) THEN row ELSE None]
  /\ UNCHANGED <<db, accepted>>

(* The version moved, yet the stored state is the one to be written: what  *)
(* is not an ACT counts as written.                                        *)
AlreadyApplied(w) ==
  /\ worker[w].pc = "persist"
  /\ ~IsAct(Pending(w))
  /\ db.version # Expected(w)
  /\ db.log = worker[w].log
  /\ worker' = [worker EXCEPT ![w].pc = "idle", ![w].persisted = db.version]
  /\ UNCHANGED <<db, accepted>>

(* A version conflict, a failed transaction or an error: nothing written.  *)
WriteFails(w) ==
  /\ worker[w].pc = "persist"
  /\ worker' = [worker EXCEPT ![w].pc = "restore"]
  /\ UNCHANGED <<db, accepted>>

(* Mutant: a restore answers even where there is no result to send.        *)
RestoreAlwaysReplies(w) ==
  /\ worker[w].pc = "restore"
  /\ worker' = [worker EXCEPT ![w] = Copied(w)]
  /\ accepted' = accepted \cup {worker[w].reply}
  /\ UNCHANGED db

(* recoverFromPersistConflict and restoreDurableRuntimeOrReject. *)
Restore(w) ==
  /\ worker[w].pc = "restore"
  /\ worker' = [worker EXCEPT ![w] = Copied(w)]
  /\ accepted' = accepted \cup ({worker[w].reply} \ {None})
  /\ UNCHANGED db

(* The read failed: clients are told to resync, the copy stays as it is.   *)
RestoreLost(w) ==
  /\ RestoresFail
  /\ worker[w].pc = "restore"
  /\ worker' = [worker EXCEPT ![w].pc = "idle", ![w].reply = None]
  /\ UNCHANGED <<db, accepted>>

----------------------------------------------------------------------------
(***************************************************************************)
(* The rest of the world.                                                  *)
(***************************************************************************)

(* A worker stops, or evicts the table: its copy is gone. *)
Crash(w) ==
  /\ worker[w].pc # "unloaded"
  /\ worker' = [worker EXCEPT ![w] = Unloaded]
  /\ UNCHANGED <<db, accepted>>

(* Mutant: closing a table leaves its version as it is.                    *)
ForceCloseKeepsVersion ==
  /\ ~db.closed
  /\ db.version < MaxVersion
  /\ db' = [db EXCEPT !.closed = TRUE, !.log = Append(@, Outside("close"))]
  /\ UNCHANGED <<worker, accepted>>

(* executeTerminalPokerCloseInTx, by an admin, outside every queue. *)
ForceClose ==
  /\ ~db.closed
  /\ db.version < MaxVersion
  /\ db' = [db EXCEPT !.version = @ + 1, !.closed = TRUE,
                      !.log = Append(@, Outside("close"))]
  /\ UNCHANGED <<worker, accepted>>

(* executeInactiveCleanup of one seat by an admin: the stack is cashed out *)
(* and leaves the state, the version stays.                                *)
CleanUpSeat ==
  /\ SeatCleanup
  /\ ~db.closed
  /\ Outside("cleanup") \notin {db.log[i] : i \in DOMAIN db.log}
  /\ db' = [db EXCEPT !.log = Append(@, Outside("cleanup"))]
  /\ UNCHANGED <<worker, accepted>>

Step(w) ==
  \/ Load(w)
  \/ \E e \in Acts : Replay(w, e) \/ ApplyAct(w, e)
  \/ \E e \in Own("timeout") : ApplyTimeout(w, e)
  \/ \E e \in Own("start_hand") : StartHand(w, e)
  \/ Commit(w) \/ CommitUnheard(w) \/ LostToRequest(w) \/ AlreadyApplied(w)
  \/ WriteFails(w)
  \/ Restore(w) \/ RestoreLost(w)
  \/ Crash(w)

Next == (\E w \in Workers : Step(w)) \/ ForceClose \/ CleanUpSeat

Spec == Init /\ [][Next]_vars

----------------------------------------------------------------------------
(***************************************************************************)
(* Properties.                                                             *)
(***************************************************************************)

TypeOK == db \in Database /\ worker \in [Workers -> Worker] /\ accepted \subseteq Results

(* Whatever is answered "accepted" is on record, and is what every answer  *)
(* to that request says: across workers, crashes, lost acknowledgements    *)
(* and failed restores a request gets one version and one payload.         *)
AcceptedIsDurable == \A r \in accepted : db.requests[r.entry.id] = r

(* What an ACT did is never taken back: each step of the durable state     *)
(* extends the history it found, no write loses one it did not see.        *)
Extends(new, old) == Len(old) <= Len(new) /\ \A i \in 1..Len(old) : new[i] = old[i]
NoLostUpdate == [][Extends(db'.log, db.log)]_vars

(* A recorded request stands in the history where its row says.            *)
RowsPointAtHistory ==
  \A id \in Ids : db.requests[id] # None =>
    LET row == db.requests[id]
    IN  row.version \in DOMAIN db.log /\ db.log[row.version] = row.entry

(* Two requests never share a version. *)
VersionsAreUnique ==
  \A i, j \in Ids : db.requests[i] # None /\ db.requests[j] # None
    /\ db.requests[i].version = db.requests[j].version => i = j

Promise == INSTANCE DurableTable WITH
  history <- db.log,
  answered <- {<<r.entry, r.version>> : r \in accepted}
DurableTableSpec == Promise!Spec

(* A closed table is never revived by a worker that holds an older copy    *)
(* (docs/poker-terminal-bot-cashout-plan.md).                              *)
ClosedStaysClosed == db.closed => IsClosed(db.log)
=============================================================================
