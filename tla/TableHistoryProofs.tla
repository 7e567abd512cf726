------------------------- MODULE TableHistoryProofs -------------------------
(***************************************************************************)
(* What TableCommit does to the history of a table, for any workers,       *)
(* requests, payloads and bound, as long as                                *)
(*   - a failed write is followed by a restore that succeeds, and          *)
(*   - nobody changes poker_state and keeps its version.                   *)
(* The argument: the version counts the mutations, and the copy of a       *)
(* worker, less the one mutation it may be writing, is a prefix of the     *)
(* durable history.  So a compare-and-swap that succeeds appends exactly   *)
(* the mutation the worker made.  Without either assumption TLC finds the  *)
(* history rewritten (MCClosedRevived shows it for the first).             *)
(***************************************************************************)
EXTENDS TableCommitProofs, SequenceTheorems

Benign == ~RestoresFail /\ ~SeatCleanup

(* How many mutations the worker's copy has that it took for durable. *)
Known(w) == IF worker[w].pc = "persist" THEN Len(worker[w].log) - 1
            ELSE Len(worker[w].log)

VersionCounts == Len(db.log) = db.version

CopiesFollow == \A w \in Workers :
  worker[w].pc \in {"idle", "persist"} =>
    /\ worker[w].version = Len(worker[w].log)
    /\ worker[w].persisted = Known(w)
    /\ Known(w) <= Len(db.log)
    /\ \A i \in 1..Known(w) : worker[w].log[i] = db.log[i]

ActsOnRecord == \A i \in 1..Len(db.log) :
  IsAct(db.log[i]) => db.requests[db.log[i].id] # None

HistoryInv ==
  /\ AnswersInv
  /\ VersionCounts
  /\ CopiesFollow
  /\ RowsPointAtHistory
  /\ ActsOnRecord
  /\ ClosedStaysClosed

(* The sequences are sequences, the lengths numbers.                       *)
LEMMA HistoryTypes ==
  ASSUME TypeInv
  PROVE  /\ db.log \in Seq(Entries) /\ Len(db.log) \in Nat /\ db.version \in Nat
         /\ \A w \in Workers :
              /\ worker[w].log \in Seq(Entries) /\ Len(worker[w].log) \in Nat
              /\ worker[w].version \in Nat /\ worker[w].persisted \in Nat
BY DEF TypeInv, TypeOK, Database, Worker

(* A write that succeeds appends the worker's mutation to the history.     *)
LEMMA CommitAppends ==
  ASSUME HistoryInv, NEW w \in Workers, CanCommit(w)
  PROVE  /\ worker[w].log = Append(db.log, Pending(w))
         /\ Expected(w) = db.version
         /\ Pending(w) \in Entries
<1>1. worker[w].pc = "persist" /\ Expected(w) = db.version
  BY DEF CanCommit
<1>2. /\ db.log \in Seq(Entries) /\ worker[w].log \in Seq(Entries)
      /\ Len(db.log) \in Nat /\ Len(worker[w].log) \in Nat
      /\ worker[w].version \in Nat /\ db.version \in Nat
  BY HistoryTypes DEF HistoryInv, AnswersInv
<1>3. Pending(w) \in Entries
  BY <1>1, PendingType DEF HistoryInv, AnswersInv
<1>4. /\ worker[w].version = Len(worker[w].log)
      /\ worker[w].persisted = Len(worker[w].log) - 1
      /\ \A i \in 1..(Len(worker[w].log) - 1) : worker[w].log[i] = db.log[i]
  BY <1>1 DEF HistoryInv, CopiesFollow, Known
<1>5. Len(worker[w].log) = Len(db.log) + 1
  BY <1>1, <1>2, <1>4 DEF Expected, HistoryInv, VersionCounts
<1> DEFINE new == Append(db.log, Pending(w))
<1>6. new \in Seq(Entries) /\ Len(new) = Len(db.log) + 1
  BY <1>2, <1>3
<1>7. \A i \in 1..Len(worker[w].log) : worker[w].log[i] = new[i]
  <2> SUFFICES ASSUME NEW i \in 1..Len(worker[w].log) PROVE worker[w].log[i] = new[i]
    OBVIOUS
  <2>1. CASE i = Len(worker[w].log)
    BY <2>1, <1>2, <1>5 DEF Pending
  <2>2. CASE i # Len(worker[w].log)
    BY <2>2, <1>2, <1>3, <1>4, <1>5
  <2> QED BY <2>1, <2>2
<1>8. worker[w].log = new
  BY <1>2, <1>5, <1>6, <1>7, SeqEqual
<1> QED BY <1>1, <1>3, <1>8

(* What any step does to the durable state: nothing, or one mutation e is  *)
(* appended, and recorded at its place if it is an ACT not recorded before.*)
Appended(e) ==
  /\ db'.log = Append(db.log, e)
  /\ db'.version = db.version + 1
  /\ IsAct(e) => /\ e.id \in Ids
                 /\ db.requests[e.id] = None
                 /\ db'.requests[e.id] = Result(e, db.version + 1)
  /\ \A id \in Ids : db'.requests[id] = db.requests[id] \/ (IsAct(e) /\ id = e.id)
  /\ db'.closed = db.closed \/ e.kind = "close"

LEMMA CommitIsAppended ==
  ASSUME HistoryInv, NEW w \in Workers, CanCommit(w), db' = Written(w)
  PROVE  Pending(w) \in Entries /\ Appended(Pending(w))
<1>1. /\ worker[w].log = Append(db.log, Pending(w))
      /\ Expected(w) = db.version
      /\ Pending(w) \in Entries
  BY CommitAppends
<1>2. db \in Database
  BY DEF HistoryInv, AnswersInv, TypeInv, TypeOK
<1>3. /\ db'.log = worker[w].log /\ db'.version = db.version + 1
      /\ db'.closed = db.closed
  BY <1>2 DEF Written, Database
<1>4. ASSUME IsAct(Pending(w))
      PROVE  /\ Pending(w).id \in Ids
             /\ db.requests[Pending(w).id] = None
             /\ db'.requests[Pending(w).id] = Result(Pending(w), db.version + 1)
  <2>1. Pending(w).id \in Ids
    BY <1>4, PendingType DEF HistoryInv, AnswersInv, CanCommit, Acts
  <2>2. db.requests[Pending(w).id] = None
    BY <1>4 DEF CanCommit, Reserved
  <2> QED BY <1>1, <1>4, <2>1, <2>2, WrittenRows DEF HistoryInv, AnswersInv, Result
<1>5. \A id \in Ids : db'.requests[id] = db.requests[id]
                        \/ (IsAct(Pending(w)) /\ id = Pending(w).id)
  BY WrittenRows DEF HistoryInv, AnswersInv
<1> QED BY <1>1, <1>3, <1>4, <1>5 DEF Appended

LEMMA CloseIsAppended ==
  ASSUME HistoryInv, ForceClose
  PROVE  Outside("close") \in Entries /\ Appended(Outside("close"))
<1>1. db \in Database
  BY DEF HistoryInv, AnswersInv, TypeInv, TypeOK
<1>2. /\ db'.log = Append(db.log, Outside("close")) /\ db'.version = db.version + 1
      /\ db'.requests = db.requests
  BY <1>1 DEF ForceClose, Database
<1>3. Outside("close").kind = "close" /\ ~IsAct(Outside("close"))
  BY DEF Outside, IsAct
<1> QED BY <1>2, <1>3 DEF Appended, Entries

LEMMA HistoryStep ==
  ASSUME Benign, HistoryInv, [Next]_vars
  PROVE  UNCHANGED db \/ \E e \in Entries : Appended(e)
<1>1. ASSUME NEW w \in Workers, Commit(w) \/ CommitUnheard(w)
      PROVE  \E e \in Entries : Appended(e)
  BY <1>1, CommitIsAppended DEF Commit, CommitUnheard
<1>2. CASE ForceClose
  BY <1>2, CloseIsAppended
<1>3. ~CleanUpSeat
  BY DEF Benign, CleanUpSeat
<1> QED
  BY <1>1, <1>2, <1>3 DEF Next, Step, vars, Load, Replay, ApplyAct, ApplyTimeout,
     StartHand, Apply, LostToRequest, AlreadyApplied, WriteFails, Restore,
     RestoreLost, Crash

(* What appending means element by element. *)
LEMMA AppendedLog ==
  ASSUME HistoryInv, NEW e \in Entries, Appended(e)
  PROVE  /\ Len(db'.log) = Len(db.log) + 1
         /\ db'.log[Len(db.log) + 1] = e
         /\ \A i \in 1..Len(db.log) : db'.log[i] = db.log[i]
<1>1. db.log \in Seq(Entries)
  BY HistoryTypes DEF HistoryInv, AnswersInv
<1>2. db'.log = Append(db.log, e)
  BY DEF Appended
<1> QED BY <1>1, <1>2

(* No step takes a mutation back.                                          *)
LEMMA HistoryGrows ==
  ASSUME Benign, HistoryInv, [Next]_vars
  PROVE  Extends(db'.log, db.log)
<1>1. Len(db.log) \in Nat
  BY HistoryTypes DEF HistoryInv, AnswersInv
<1>2. CASE UNCHANGED db
  BY <1>1, <1>2 DEF Extends
<1>3. ASSUME NEW e \in Entries, Appended(e) PROVE Extends(db'.log, db.log)
  BY <1>1, <1>3, AppendedLog DEF Extends
<1> QED BY <1>2, <1>3, HistoryStep

----------------------------------------------------------------------------
(***************************************************************************)
(* The conjuncts of the invariant, one lemma each.                         *)
(***************************************************************************)
LEMMA VersionCountsStep ==
  ASSUME Benign, HistoryInv, [Next]_vars
  PROVE  VersionCounts'
<1>1. CASE UNCHANGED db
  BY <1>1 DEF HistoryInv, VersionCounts
<1>2. ASSUME NEW e \in Entries, Appended(e) PROVE VersionCounts'
  BY <1>2, AppendedLog DEF HistoryInv, VersionCounts, Appended
<1> QED BY <1>1, <1>2, HistoryStep

LEMMA RowsPointStep ==
  ASSUME Benign, HistoryInv, [Next]_vars
  PROVE  RowsPointAtHistory'
<1>0. /\ db.log \in Seq(Entries) /\ Len(db.log) \in Nat
      /\ db'.log \in Seq(Entries) /\ DOMAIN db'.log = 1..Len(db'.log)
      /\ DOMAIN db.log = 1..Len(db.log)
  BY HistoryTypes, TypeStep DEF HistoryInv, AnswersInv, TypeInv, TypeOK, Database
<1>1. CASE UNCHANGED db
  BY <1>1 DEF HistoryInv, RowsPointAtHistory
<1>2. ASSUME NEW e \in Entries, Appended(e), NEW id \in Ids, db'.requests[id] # None
      PROVE  /\ db'.requests[id].version \in 1..Len(db'.log)
             /\ db'.log[db'.requests[id].version] = db'.requests[id].entry
  <2>1. /\ Len(db'.log) = Len(db.log) + 1
        /\ db'.log[Len(db.log) + 1] = e
        /\ \A i \in 1..Len(db.log) : db'.log[i] = db.log[i]
    BY <1>2, AppendedLog
  <2>2. CASE db'.requests[id] = db.requests[id]
    <3>1. /\ db.requests[id].version \in 1..Len(db.log)
          /\ db.log[db.requests[id].version] = db.requests[id].entry
      BY <1>0, <1>2, <2>2 DEF HistoryInv, RowsPointAtHistory
    <3> QED BY <1>0, <2>1, <2>2, <3>1
  <2>3. CASE IsAct(e) /\ id = e.id
    <3>1. db'.requests[id] = Result(e, Len(db.log) + 1)
      BY <1>2, <2>3 DEF Appended, HistoryInv, VersionCounts
    <3> QED BY <1>0, <2>1, <3>1 DEF Result
  <2> QED BY <1>2, <2>2, <2>3 DEF Appended
<1> QED BY <1>0, <1>1, <1>2, HistoryStep DEF RowsPointAtHistory

LEMMA ActsOnRecordStep ==
  ASSUME Benign, HistoryInv, [Next]_vars
  PROVE  ActsOnRecord'
<1>1. CASE UNCHANGED db
  BY <1>1 DEF HistoryInv, ActsOnRecord
<1>2. ASSUME NEW e \in Entries, Appended(e), NEW i \in 1..Len(db'.log),
             IsAct(db'.log[i])
      PROVE  db'.requests[db'.log[i].id] # None
  <2>0. /\ Len(db.log) \in Nat /\ db.log \in Seq(Entries)
        /\ db.version \in Nat
    BY HistoryTypes DEF HistoryInv, AnswersInv
  <2>1. CASE i = Len(db.log) + 1
    <3>1. db'.log[i] = e
      BY <1>2, <2>1, AppendedLog
    <3>2. Result(e, db.version + 1) \in Results
      BY <1>2, <2>0, <3>1 DEF Result, Results, Entries, Own, Outside, Acts, IsAct
    <3> QED BY <1>2, <3>1, <3>2, NoneAssumption DEF Appended
  <2>2. CASE i # Len(db.log) + 1
    <3>1. i \in 1..Len(db.log) /\ db'.log[i] = db.log[i]
      BY <1>2, <2>0, <2>2, AppendedLog
    <3>2. db.log[i] \in Entries
      BY <2>0, <3>1, ElementOfSeq
    <3>3. db.log[i].id \in Ids
      BY <1>2, <3>1, <3>2 DEF Entries, Own, Outside, Acts, IsAct
    <3>4. db.requests[db.log[i].id] # None
      BY <1>2, <3>1 DEF HistoryInv, ActsOnRecord
    <3> QED BY <3>1, <3>3, <3>4, RowsStep DEF HistoryInv, AnswersInv
  <2> QED BY <2>1, <2>2
<1> QED BY <1>1, <1>2, HistoryStep DEF ActsOnRecord

LEMMA ClosedStep ==
  ASSUME Benign, HistoryInv, [Next]_vars
  PROVE  ClosedStaysClosed'
<1>0. DOMAIN db.log = 1..Len(db.log) /\ DOMAIN db'.log = 1..Len(db'.log)
      /\ Len(db.log) \in Nat
  BY HistoryTypes, TypeStep DEF HistoryInv, AnswersInv, TypeInv, TypeOK, Database
<1>1. CASE UNCHANGED db
  BY <1>1 DEF HistoryInv, ClosedStaysClosed
<1>2. ASSUME NEW e \in Entries, Appended(e), db'.closed PROVE IsClosed(db'.log)
  <2>1. CASE db.closed
    BY <1>0, <1>2, <2>1, AppendedLog DEF HistoryInv, ClosedStaysClosed, IsClosed
  <2>2. CASE e.kind = "close"
    BY <1>0, <1>2, <2>2, AppendedLog DEF IsClosed
  <2> QED BY <1>2, <2>1, <2>2 DEF Appended
<1> QED BY <1>1, <1>2, HistoryStep DEF ClosedStaysClosed

(* The conjunct of CopiesFollow for one worker's record and one history. *)
Follows(rec, log) ==
  rec.pc \in {"idle", "persist"} =>
    LET known == IF rec.pc = "persist" THEN Len(rec.log) - 1 ELSE Len(rec.log)
    IN  /\ rec.version = Len(rec.log)
        /\ rec.persisted = known
        /\ known <= Len(log)
        /\ \A i \in 1..known : rec.log[i] = log[i]

LEMMA FollowsAll == CopiesFollow <=> \A w \in Workers : Follows(worker[w], db.log)
BY DEF CopiesFollow, Follows, Known

(* A copy keeps following a history that only grows. *)
LEMMA FollowsGrown ==
  ASSUME NEW rec \in Worker, NEW old \in Seq(Entries), NEW new \in Seq(Entries),
         Follows(rec, old), Extends(new, old)
  PROVE  Follows(rec, new)
<1> DEFINE known == IF rec.pc = "persist" THEN Len(rec.log) - 1 ELSE Len(rec.log)
<1>1. known \in Int /\ Len(old) \in Nat /\ Len(new) \in Nat
  BY DEF Worker
<1>2. CASE rec.pc \in {"idle", "persist"}
  <2>1. known <= Len(old) /\ \A i \in 1..known : rec.log[i] = old[i]
    BY <1>2 DEF Follows
  <2>2. known <= Len(new) /\ \A i \in 1..known : rec.log[i] = new[i]
    BY <1>1, <2>1 DEF Extends
  <2> QED BY <1>2, <2>2 DEF Follows
<1>3. CASE rec.pc \notin {"idle", "persist"}
  BY <1>3 DEF Follows
<1> QED BY <1>2, <1>3

(* A copy just read is the history. *)
LEMMA CopyFollows ==
  ASSUME HistoryInv, NEW w \in Workers
  PROVE  Follows(Copied(w), db.log)
<1>1. worker[w] \in Worker /\ db \in Database
  BY DEF HistoryInv, AnswersInv, TypeInv, TypeOK
<1>2. /\ Copied(w).pc = "idle" /\ Copied(w).log = db.log
      /\ Copied(w).version = db.version /\ Copied(w).persisted = db.version
  BY <1>1 DEF Copied, Worker
<1>3. Len(db.log) \in Nat /\ db.version = Len(db.log)
  BY HistoryTypes DEF HistoryInv, AnswersInv, VersionCounts
<1> QED BY <1>2, <1>3 DEF Follows

(* A mutation of the copy puts one entry on top of what it knew. *)
LEMMA ApplyFollows ==
  ASSUME HistoryInv, NEW w \in Workers, NEW e \in Entries, Apply(w, e)
  PROVE  Follows(worker'[w], db.log)
<1>1. worker[w] \in Worker /\ worker \in [Workers -> Worker]
  BY DEF HistoryInv, AnswersInv, TypeInv, TypeOK
<1>2. /\ worker'[w].pc = "persist"
      /\ worker'[w].version = worker[w].version + 1
      /\ worker'[w].persisted = worker[w].persisted
      /\ worker'[w].log = Append(worker[w].log, e)
      /\ worker[w].pc = "idle"
  BY <1>1 DEF Apply, Worker
<1>3. Follows(worker[w], db.log)
  BY FollowsAll DEF HistoryInv
<1>4. worker[w].log \in Seq(Entries) /\ Len(worker[w].log) \in Nat
      /\ Len(db.log) \in Nat
  BY HistoryTypes DEF HistoryInv, AnswersInv
<1>5. /\ Len(worker'[w].log) = Len(worker[w].log) + 1
      /\ \A i \in 1..Len(worker[w].log) : worker'[w].log[i] = worker[w].log[i]
  BY <1>2, <1>4
<1>6. /\ worker[w].version = Len(worker[w].log)
      /\ worker[w].persisted = Len(worker[w].log)
      /\ Len(worker[w].log) <= Len(db.log)
      /\ \A i \in 1..Len(worker[w].log) : worker[w].log[i] = db.log[i]
  BY <1>2, <1>3 DEF Follows
<1>7. Len(worker'[w].log) - 1 = Len(worker[w].log)
  BY <1>4, <1>5
<1> QED BY <1>2, <1>4, <1>5, <1>6, <1>7 DEF Follows

(* After a write that succeeded the copy is the history. *)
LEMMA CommitFollows ==
  ASSUME HistoryInv, NEW w \in Workers, Commit(w)
  PROVE  Follows(worker'[w], db'.log)
<1>1. worker[w] \in Worker /\ worker \in [Workers -> Worker] /\ db \in Database
  BY DEF HistoryInv, AnswersInv, TypeInv, TypeOK
<1>2. /\ worker'[w].pc = "idle" /\ worker'[w].log = worker[w].log
      /\ worker'[w].version = worker[w].version
      /\ worker'[w].persisted = db.version + 1
  BY <1>1 DEF Commit, Worker
<1>3. CanCommit(w) /\ db' = Written(w) /\ worker[w].pc = "persist"
  BY DEF Commit, CanCommit
<1>4. worker[w].log = Append(db.log, Pending(w)) /\ Pending(w) \in Entries
  BY <1>3, CommitAppends
<1>5. db'.log = worker[w].log
  BY <1>1, <1>3 DEF Written, Database
<1>6. worker[w].version = Len(worker[w].log)
  BY <1>3 DEF HistoryInv, CopiesFollow
<1>7. /\ Len(worker[w].log) = Len(db.log) + 1 /\ Len(db.log) \in Nat
      /\ Len(db.log) = db.version
  BY <1>4, HistoryTypes DEF HistoryInv, AnswersInv, VersionCounts
<1> QED BY <1>2, <1>5, <1>6, <1>7 DEF Follows

(* A write found to be stored already: the copy is the history. *)
LEMMA AppliedFollows ==
  ASSUME HistoryInv, NEW w \in Workers, AlreadyApplied(w)
  PROVE  Follows(worker'[w], db.log)
<1>1. worker[w] \in Worker /\ worker \in [Workers -> Worker]
  BY DEF HistoryInv, AnswersInv, TypeInv, TypeOK
<1>2. /\ worker'[w].pc = "idle" /\ worker'[w].log = db.log
      /\ worker'[w].version = worker[w].version /\ worker'[w].persisted = db.version
      /\ worker[w].pc = "persist" /\ worker[w].log = db.log
  BY <1>1 DEF AlreadyApplied, Worker
<1>3. worker[w].version = Len(db.log)
  BY <1>2 DEF HistoryInv, CopiesFollow
<1>4. Len(db.log) \in Nat /\ Len(db.log) = db.version
  BY HistoryTypes DEF HistoryInv, AnswersInv, VersionCounts
<1> QED BY <1>2, <1>3, <1>4 DEF Follows

LEMMA CopiesFollowStep ==
  ASSUME Benign, HistoryInv, [Next]_vars
  PROVE  CopiesFollow'
<1>0. /\ worker \in [Workers -> Worker]
      /\ db.log \in Seq(Entries) /\ db'.log \in Seq(Entries)
  BY TypeStep DEF HistoryInv, AnswersInv, TypeInv, TypeOK, Database
<1>1. ASSUME NEW v \in Workers, worker'[v] = worker[v] PROVE Follows(worker'[v], db'.log)
  BY <1>0, <1>1, FollowsAll, FollowsGrown, HistoryGrows DEF HistoryInv
<1>2. ASSUME NEW w \in Workers, Step(w) PROVE \A v \in Workers : Follows(worker'[v], db'.log)
  <2>1. \A v \in Workers : v # w => worker'[v] = worker[v]
    BY <1>0, <1>2 DEF Step, Load, Replay, ApplyAct, ApplyTimeout, StartHand, Apply,
       Commit, CommitUnheard, LostToRequest, AlreadyApplied, WriteFails, Restore,
       RestoreLost, Crash
  <2>2. Follows(worker'[w], db'.log)
    <3>1. CASE Load(w) \/ Restore(w)
      BY <1>0, <3>1, CopyFollows DEF Load, Restore
    <3>2. ASSUME NEW e \in Entries, Apply(w, e) PROVE Follows(worker'[w], db'.log)
      BY <3>2, ApplyFollows DEF Apply
    <3>3. CASE Commit(w)
      BY <3>3, CommitFollows
    <3>4. CASE AlreadyApplied(w)
      BY <3>4, AppliedFollows DEF AlreadyApplied
    <3>5. CASE CommitUnheard(w) \/ LostToRequest(w) \/ WriteFails(w)
      <4>1. worker'[w].pc = "restore"
        BY <1>0, <3>5 DEF CommitUnheard, LostToRequest, WriteFails, Worker
      <4> QED BY <4>1 DEF Follows
    <3>6. CASE Crash(w)
      <4>1. worker'[w].pc = "unloaded"
        BY <1>0, <3>6 DEF Crash, Unloaded
      <4> QED BY <4>1 DEF Follows
    <3>7. ASSUME NEW e \in Acts, Replay(w, e) PROVE Follows(worker'[w], db'.log)
      BY <1>1, <3>7 DEF Replay
    <3>8. ~RestoreLost(w)
      BY DEF Benign, RestoreLost
    <3> QED
      BY <1>2, <3>1, <3>2, <3>3, <3>4, <3>5, <3>6, <3>7, <3>8
      DEF Step, ApplyAct, ApplyTimeout, StartHand, Entries
  <2> QED BY <1>1, <2>1, <2>2
<1>3. ASSUME UNCHANGED worker PROVE \A v \in Workers : Follows(worker'[v], db'.log)
  BY <1>1, <1>3
<1>4. ForceClose => UNCHANGED worker
  BY DEF ForceClose
<1>5. ~CleanUpSeat
  BY DEF Benign, CleanUpSeat
<1>6. \A v \in Workers : Follows(worker'[v], db'.log)
  BY <1>2, <1>3, <1>4, <1>5 DEF Next, vars
<1> QED BY <1>6 DEF CopiesFollow, Follows, Known

LEMMA HistoryInvStep == Benign /\ HistoryInv /\ [Next]_vars => HistoryInv'
BY AnswersStep, VersionCountsStep, CopiesFollowStep, RowsPointStep, ActsOnRecordStep,
   ClosedStep DEF HistoryInv

LEMMA HistoryInvInit == Init => HistoryInv
<1> SUFFICES ASSUME Init PROVE HistoryInv
  OBVIOUS
<1>1. AnswersInv
  BY DEF Init, AnswersInv, TypeInv, TypeOK, PendingExists, Database, Worker,
     Unloaded, RowsNamed, RepliesOnRecord, AcceptedIsDurable
<1>2. /\ db.log = <<>> /\ db.version = 0 /\ ~db.closed
      /\ \A id \in Ids : db.requests[id] = None
      /\ \A w \in Workers : worker[w].pc = "unloaded"
  BY DEF Init, Unloaded
<1>3. Len(db.log) = 0
  BY <1>2
<1> QED
  BY <1>1, <1>2, <1>3 DEF HistoryInv, VersionCounts, CopiesFollow, RowsPointAtHistory,
     ActsOnRecord, ClosedStaysClosed

(* The invariant holds in every behaviour of the benign environment.       *)
LEMMA HistoryInvariant ==
  ASSUME Benign
  PROVE  Spec => []HistoryInv
BY HistoryInvInit, HistoryInvStep, PTL DEF Spec

(***************************************************************************)
(* Theorems.                                                               *)
(***************************************************************************)

(* No step takes a stored mutation back: with every mutation of a state    *)
(* bumping its version, and every failed write followed by a restore, the  *)
(* compare-and-swap of writeViaDb loses no update.                         *)
THEOREM HistoryKept ==
  ASSUME Benign
  PROVE  Spec => NoLostUpdate
<1>1. HistoryInv /\ [Next]_vars => [Extends(db'.log, db.log)]_vars
  BY HistoryGrows
<1> QED BY <1>1, HistoryInvariant, PTL DEF Spec, NoLostUpdate

(* The version an ACT was answered with is its place in the history.       *)
THEOREM RowsInPlace ==
  ASSUME Benign
  PROVE  Spec => []RowsPointAtHistory
<1>1. HistoryInv => RowsPointAtHistory
  BY DEF HistoryInv
<1> QED BY <1>1, HistoryInvariant, PTL

(* A closed table stays closed, which is what the terminal close promises: *)
(* here is what it rests on.                                               *)
THEOREM ClosedForGood ==
  ASSUME Benign
  PROVE  Spec => []ClosedStaysClosed
<1>1. HistoryInv => ClosedStaysClosed
  BY DEF HistoryInv
<1> QED BY <1>1, HistoryInvariant, PTL

(* An answer newly given, at most one a step, stands in the history.       *)
LEMMA AnswerShape ==
  ASSUME HistoryInv, [Next]_vars
  PROVE  accepted' = accepted \/ \E r : accepted' = accepted \cup {r}
<1>1. ASSUME NEW w \in Workers, Restore(w)
      PROVE  accepted' = accepted \/ \E r : accepted' = accepted \cup {r}
  <2>1. CASE worker[w].reply = None
    BY <1>1, <2>1 DEF Restore
  <2>2. CASE worker[w].reply # None
    <3>1. accepted' = accepted \cup {worker[w].reply}
      BY <1>1, <2>2 DEF Restore
    <3> QED BY <3>1
  <2> QED BY <2>1, <2>2
<1>2. ASSUME NEW w \in Workers, Commit(w)
      PROVE  accepted' = accepted \/ \E r : accepted' = accepted \cup {r}
  <2>1. accepted' = accepted
          \/ accepted' = accepted \cup {Result(Pending(w), Expected(w) + 1)}
    BY <1>2 DEF Commit
  <2> QED BY <2>1
<1>3. ASSUME NEW w \in Workers, NEW e \in Acts, Replay(w, e)
      PROVE  \E r : accepted' = accepted \cup {r}
  BY <1>3 DEF Replay
<1> QED
  BY <1>1, <1>2, <1>3 DEF Next, Step, vars, Load, ApplyAct, ApplyTimeout, StartHand,
     Apply, CommitUnheard, LostToRequest, AlreadyApplied, WriteFails, RestoreLost,
     Crash, ForceClose, CleanUpSeat

LEMMA AnswerIsPlaced ==
  ASSUME Benign, HistoryInv, [Next]_vars, NEW r \in accepted' \ accepted
  PROVE  /\ r.version \in DOMAIN db'.log
         /\ db'.log[r.version] = r.entry
         /\ r.entry \in Acts
<1>1. r.entry.id \in Ids /\ db'.requests[r.entry.id] = r
  BY AnswerStep DEF HistoryInv
<1>2. r \in Results
  BY TypeStep DEF HistoryInv, AnswersInv, TypeInv, TypeOK
<1>3. r # None
  BY <1>2, NoneAssumption
<1>4. RowsPointAtHistory'
  BY RowsPointStep
<1> QED BY <1>1, <1>2, <1>3, <1>4 DEF RowsPointAtHistory, Results

(* A mutation that is appended may be appended by the abstract table: an   *)
(* ACT is in the history at most once.                                     *)
LEMMA AppendedIsMutate ==
  ASSUME HistoryInv, NEW e \in Entries, Appended(e)
  PROVE  Promise!Mutate(e)
<1>1. db.log \in Seq(Entries) /\ DOMAIN db.log = 1..Len(db.log)
  BY HistoryTypes DEF HistoryInv, AnswersInv
<1>2. ASSUME e \in Acts, NEW i \in DOMAIN db.log, db.log[i] \in Acts,
             db.log[i].id = e.id
      PROVE  FALSE
  <2>1. IsAct(e) /\ IsAct(db.log[i])
    BY <1>2 DEF Acts, IsAct
  <2>2. db.requests[e.id] # None
    BY <1>1, <1>2, <2>1 DEF HistoryInv, ActsOnRecord
  <2> QED BY <1>2, <2>1, <2>2 DEF Appended
<1> QED BY <1>2 DEF Promise!Mutate, Promise!RequestOf, Appended

(* The workers, their compare-and-swap and their rows implement the        *)
(* promise of DurableTable: one growing history, each ACT in it at most    *)
(* once, each answer the place of its ACT.                                 *)
THEOREM ImplementsDurableTable ==
  ASSUME Benign
  PROVE  Spec => DurableTableSpec
<1> DEFINE answers == {<<r.entry, r.version>> : r \in accepted}
<1>1. Init => Promise!Init
  BY DEF Init, Promise!Init
<1>2. HistoryInv /\ [Next]_vars => [Promise!Next]_<<db.log, answers>>
  <2> SUFFICES ASSUME HistoryInv, [Next]_vars PROVE Promise!Next
    OBVIOUS
  <2>1. (\E e \in Entries : Promise!Mutate(e)) \/ UNCHANGED db.log
    BY HistoryStep, AppendedIsMutate
  <2>2. Promise!Answer
    <3>1. CASE accepted' = accepted
      BY <3>1 DEF Promise!Answer
    <3>2. ASSUME NEW r, accepted' = accepted \cup {r}, r \notin accepted
          PROVE  Promise!Answer
      <4>1. /\ r.version \in DOMAIN db'.log
            /\ db'.log[r.version] = r.entry
            /\ r.entry \in Acts
        BY <3>2, AnswerIsPlaced
      <4>2. answers' = answers \cup {<<r.entry, r.version>>}
        BY <3>2
      <4> QED BY <4>1, <4>2 DEF Promise!Answer
    <3> QED BY <3>1, <3>2, AnswerShape
  <2> QED BY <2>1, <2>2 DEF Promise!Next
<1> QED BY <1>1, <1>2, HistoryInvariant, PTL DEF Spec, DurableTableSpec, Promise!Spec
=============================================================================
