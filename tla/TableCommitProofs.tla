------------------------- MODULE TableCommitProofs -------------------------
(***************************************************************************)
(* Proofs about TableCommit, for any workers, requests, payloads and bound.*)
(*   TypeCorrect          the types, of copies that are behind included    *)
(*   AcceptedDurable      AcceptedIsDurable, whatever fails                *)
(*   VersionsNeverShared  VersionsAreUnique, whatever fails                *)
(***************************************************************************)
EXTENDS TableCommit, TLAPS

(***************************************************************************)
(* Types.  A worker that writes has the mutation it writes in its copy.    *)
(***************************************************************************)
PendingExists ==
  \A w \in Workers : worker[w].pc = "persist" =>
    Len(worker[w].log) > 0 /\ worker[w].version > 0

TypeInv == TypeOK /\ PendingExists

(* The entry a worker is writing is an entry, and its result is a result.  *)
LEMMA PendingType ==
  ASSUME TypeInv, NEW w \in Workers, worker[w].pc = "persist"
  PROVE  /\ Pending(w) \in Entries
         /\ Expected(w) \in Int
         /\ IsAct(Pending(w)) => /\ Pending(w) \in Acts
                                 /\ Expected(w) + 1 = worker[w].version
                                 /\ Result(Pending(w), Expected(w) + 1) \in Results
<1>1. worker[w] \in Worker /\ Len(worker[w].log) > 0 /\ worker[w].version > 0
  BY DEF TypeInv, TypeOK, PendingExists
<1>2. worker[w].log \in Seq(Entries) /\ Len(worker[w].log) \in 1..Len(worker[w].log)
  BY <1>1 DEF Worker
<1>3. Pending(w) \in Entries
  BY <1>2 DEF Pending
<1>4. worker[w].version \in Nat /\ worker[w].persisted \in Nat
  BY <1>1 DEF Worker
<1>5. Expected(w) \in Int
  BY <1>4 DEF Expected
<1>6. ASSUME IsAct(Pending(w))
      PROVE  Pending(w) \in Acts /\ Expected(w) + 1 = worker[w].version
  <2>1. Pending(w) \in Acts
    BY <1>3, <1>6 DEF Entries, Own, Outside, Acts, IsAct
  <2>2. Pending(w).kind # "start_hand"
    BY <1>6 DEF IsAct
  <2> QED BY <2>1, <2>2, <1>4 DEF Expected
<1>7. IsAct(Pending(w)) => Result(Pending(w), Expected(w) + 1) \in Results
  BY <1>4, <1>6 DEF Result, Results
<1> QED BY <1>3, <1>5, <1>6, <1>7

(* A copy read from the database is a worker's state. *)
LEMMA CopyType ==
  ASSUME TypeInv, NEW w \in Workers
  PROVE  Copied(w) \in Worker /\ Copied(w).pc = "idle"
BY DEF TypeInv, TypeOK, Database, Worker, Copied

(* What a successful write leaves in the database. *)
LEMMA WrittenType ==
  ASSUME TypeInv, NEW w \in Workers, CanCommit(w)
  PROVE  Written(w) \in Database
<1>1. db \in Database /\ worker[w] \in Worker /\ worker[w].pc = "persist"
  BY DEF TypeInv, TypeOK, CanCommit
<1>2. db.version + 1 \in Nat /\ worker[w].log \in Seq(Entries)
  BY <1>1 DEF Database, Worker
<1>3. \A id \in Ids :
        (IF IsAct(Pending(w)) /\ Pending(w).id = id
         THEN Result(Pending(w), Expected(w) + 1)
         ELSE db.requests[id]) \in Results \cup {None}
  BY <1>1, PendingType DEF Database
<1> QED BY <1>1, <1>2, <1>3 DEF Written, Database

(* Every action keeps the types. *)
LEMMA TypeStep == TypeInv /\ [Next]_vars => TypeInv'
<1> SUFFICES ASSUME TypeInv, [Next]_vars PROVE TypeInv'
  OBVIOUS
<1> USE DEF TypeInv, TypeOK, PendingExists
<1>0. db \in Database /\ worker \in [Workers -> Worker] /\ accepted \subseteq Results
  OBVIOUS
<1>1. ASSUME NEW w \in Workers, NEW new \in Worker,
             new.pc # "persist" \/ (Len(new.log) > 0 /\ new.version > 0),
             worker' = [worker EXCEPT ![w] = new]
      PROVE  worker' \in [Workers -> Worker] /\ PendingExists'
  BY <1>0, <1>1
<1>2. ASSUME NEW w \in Workers, Load(w) PROVE TypeInv'
  <2>1. worker' = [worker EXCEPT ![w] = Copied(w)] /\ UNCHANGED <<db, accepted>>
    BY <1>2 DEF Load
  <2> QED BY <2>1, <1>0, <1>1, CopyType
<1>3. ASSUME NEW w \in Workers, NEW e \in Entries, Apply(w, e) PROVE TypeInv'
  <2> DEFINE new == [worker[w] EXCEPT !.pc = "persist", !.version = @ + 1,
                                      !.log = Append(@, e)]
  <2>1. worker[w] \in Worker
    BY <1>0
  <2>2. /\ worker[w].log \in Seq(Entries)
        /\ Append(worker[w].log, e) \in Seq(Entries)
        /\ Len(Append(worker[w].log, e)) = Len(worker[w].log) + 1
        /\ Len(worker[w].log) \in Nat
    BY <2>1 DEF Worker
  <2>3. new \in Worker /\ Len(new.log) > 0 /\ new.version > 0
    <3>1. worker[w].version \in Nat /\ worker[w].version + 1 \in Nat
          /\ worker[w].version + 1 > 0
      BY <2>1 DEF Worker
    <3>2. new \in Worker
      BY <2>1, <2>2, <3>1 DEF Worker
    <3>3. new.log = Append(worker[w].log, e) /\ new.version = worker[w].version + 1
      BY <2>1 DEF Worker
    <3> QED BY <2>2, <3>1, <3>2, <3>3
  <2>4. worker' = [worker EXCEPT ![w] = new] /\ UNCHANGED <<db, accepted>>
    BY <1>0, <1>3 DEF Apply
  <2> QED BY <2>3, <2>4, <1>0, <1>1
<1>4. ASSUME NEW w \in Workers, NEW e \in Acts, Replay(w, e) PROVE TypeInv'
  <2>1. db.requests[e.id] \in Results
    BY <1>0, <1>4 DEF Replay, Database, Acts
  <2> QED BY <2>1, <1>0, <1>4 DEF Replay
<1>5. ASSUME NEW w \in Workers, Commit(w) PROVE TypeInv'
  <2>1. CanCommit(w) /\ worker[w].pc = "persist" /\ db' \in Database
    BY <1>5, WrittenType DEF Commit, CanCommit
  <2>2. accepted' \subseteq Results
    BY <1>0, <1>5, <2>1, PendingType DEF Commit
  <2> DEFINE new == [worker[w] EXCEPT !.pc = "idle", !.persisted = db.version + 1]
  <2>3. worker[w] \in Worker /\ db.version + 1 \in Nat
    BY <1>0 DEF Database
  <2>4. new \in Worker /\ new.pc = "idle"
    BY <2>3 DEF Worker
  <2>5. worker' = [worker EXCEPT ![w] = new]
    BY <1>0, <1>5 DEF Commit
  <2> QED BY <2>1, <2>2, <2>4, <2>5, <1>1
<1>6. ASSUME NEW w \in Workers, CommitUnheard(w) PROVE TypeInv'
  <2> DEFINE new == [worker[w] EXCEPT !.pc = "restore"]
  <2>1. new \in Worker /\ new.pc = "restore" /\ worker' = [worker EXCEPT ![w] = new]
    BY <1>0, <1>6 DEF CommitUnheard, Worker
  <2>2. db' \in Database /\ accepted' \subseteq Results
    BY <1>0, <1>6, WrittenType DEF CommitUnheard
  <2> QED BY <2>1, <2>2, <1>1
<1>7. ASSUME NEW w \in Workers, LostToRequest(w) PROVE TypeInv'
  <2> DEFINE row == db.requests[Pending(w).id]
             reply == IF row.entry = Pending(w) THEN row ELSE None
             new == [worker[w] EXCEPT !.pc = "restore", !.reply = reply]
  <2>1. worker[w].pc = "persist" /\ IsAct(Pending(w)) /\ row # None
    BY <1>7 DEF LostToRequest, Reserved
  <2>2. Pending(w).id \in Ids
    BY <2>1, PendingType DEF Acts
  <2>3. row \in Results
    BY <1>0, <2>1, <2>2 DEF Database
  <2>4. new \in Worker /\ new.pc = "restore"
    BY <1>0, <2>3 DEF Worker
  <2>5. worker' = [worker EXCEPT ![w] = new] /\ UNCHANGED <<db, accepted>>
    BY <1>0, <1>7 DEF LostToRequest
  <2> QED BY <2>4, <2>5, <1>0, <1>1
<1>8. ASSUME NEW w \in Workers, AlreadyApplied(w) PROVE TypeInv'
  <2> DEFINE new == [worker[w] EXCEPT !.pc = "idle", !.persisted = db.version]
  <2>1. new \in Worker /\ new.pc = "idle" /\ worker' = [worker EXCEPT ![w] = new]
    BY <1>0, <1>8 DEF AlreadyApplied, Worker, Database
  <2> QED BY <2>1, <1>0, <1>1, <1>8 DEF AlreadyApplied
<1>9. ASSUME NEW w \in Workers, WriteFails(w) PROVE TypeInv'
  <2> DEFINE new == [worker[w] EXCEPT !.pc = "restore"]
  <2>1. new \in Worker /\ new.pc = "restore" /\ worker' = [worker EXCEPT ![w] = new]
    BY <1>0, <1>9 DEF WriteFails, Worker
  <2> QED BY <2>1, <1>0, <1>1, <1>9 DEF WriteFails
<1>10. ASSUME NEW w \in Workers, Restore(w) PROVE TypeInv'
  <2>1. worker[w].reply \in Results \cup {None}
    BY <1>0 DEF Worker
  <2>2. accepted' \subseteq Results
    BY <1>0, <1>10, <2>1 DEF Restore
  <2> QED BY <2>2, <1>0, <1>1, <1>10, CopyType DEF Restore
<1>11. ASSUME NEW w \in Workers, RestoreLost(w) PROVE TypeInv'
  <2> DEFINE new == [worker[w] EXCEPT !.pc = "idle", !.reply = None]
  <2>1. new \in Worker /\ new.pc = "idle" /\ worker' = [worker EXCEPT ![w] = new]
    BY <1>0, <1>11 DEF RestoreLost, Worker
  <2> QED BY <2>1, <1>0, <1>1, <1>11 DEF RestoreLost
<1>12. ASSUME NEW w \in Workers, Crash(w) PROVE TypeInv'
  <2>1. Unloaded \in Worker /\ Unloaded.pc = "unloaded"
    BY DEF Unloaded, Worker
  <2> QED BY <2>1, <1>0, <1>1, <1>12 DEF Crash
<1>13. ASSUME ForceClose \/ CleanUpSeat PROVE TypeInv'
  <2>1. Outside("close") \in Entries /\ Outside("cleanup") \in Entries
    BY DEF Entries
  <2>2. /\ db.version + 1 \in Nat
        /\ Append(db.log, Outside("close")) \in Seq(Entries)
        /\ Append(db.log, Outside("cleanup")) \in Seq(Entries)
    BY <2>1, <1>0 DEF Database
  <2>3. db' \in Database
    <3>1. CASE ForceClose
      BY <2>2, <1>0, <3>1 DEF ForceClose, Database
    <3>2. CASE CleanUpSeat
      BY <2>2, <1>0, <3>2 DEF CleanUpSeat, Database
    <3> QED BY <1>13, <3>1, <3>2
  <2> QED BY <2>3, <1>0, <1>13 DEF ForceClose, CleanUpSeat
<1>14. CASE UNCHANGED vars
  BY <1>14 DEF vars
<1> QED
  BY <1>2, <1>3, <1>4, <1>5, <1>6, <1>7, <1>8, <1>9, <1>10, <1>11, <1>12, <1>13, <1>14
  DEF Next, Step, ApplyAct, ApplyTimeout, StartHand, Entries

(* The types of TableCommit: what TLC checks as an invariant on two        *)
(* workers holds for any.                                                  *)
THEOREM TypeCorrect == Spec => []TypeOK
<1>1. Init => TypeInv
  BY DEF Init, TypeInv, TypeOK, PendingExists, Database, Worker, Unloaded
<1>2. TypeInv => TypeOK
  BY DEF TypeInv
<1> QED BY <1>1, <1>2, TypeStep, PTL DEF Spec

----------------------------------------------------------------------------
(***************************************************************************)
(* Accepted answers.  The rows of poker_requests only ever gain rows, and  *)
(* an answer, sent or waiting for a restore, is a row.                     *)
(***************************************************************************)
RowsNamed == \A id \in Ids :
  db.requests[id] # None => db.requests[id].entry.id = id

RepliesOnRecord == \A w \in Workers :
  worker[w].reply # None =>
    db.requests[worker[w].reply.entry.id] = worker[w].reply

AnswersInv == TypeInv /\ RowsNamed /\ RepliesOnRecord /\ AcceptedIsDurable

(* What a successful write does to the rows. *)
LEMMA WrittenRows ==
  ASSUME TypeInv, NEW w \in Workers, CanCommit(w), db' = Written(w), NEW id \in Ids
  PROVE  /\ db.requests[id] # None => db'.requests[id] = db.requests[id]
         /\ \/ db'.requests[id] = db.requests[id]
            \/ /\ IsAct(Pending(w)) /\ Pending(w).id = id
               /\ db'.requests[id] = Result(Pending(w), Expected(w) + 1)
         /\ IsAct(Pending(w)) =>
              LET r == Result(Pending(w), Expected(w) + 1)
              IN  r.entry.id \in Ids /\ db'.requests[r.entry.id] = r
<1>1. worker[w].pc = "persist" /\ Reserved(Pending(w))
  BY DEF CanCommit
<1>2. db'.requests = [i \in Ids |->
        IF IsAct(Pending(w)) /\ Pending(w).id = i
        THEN Result(Pending(w), Expected(w) + 1) ELSE db.requests[i]]
  BY DEF Written, TypeInv, TypeOK, Database
<1>3. IsAct(Pending(w)) => Pending(w).id \in Ids /\ db.requests[Pending(w).id] = None
  BY <1>1, PendingType DEF Reserved, Acts
<1> QED BY <1>2, <1>3 DEF Result

(* A row, once there, stays as it is; a new one is named for its request.  *)
LEMMA RowsStep ==
  ASSUME TypeInv, [Next]_vars, NEW id \in Ids
  PROVE  /\ db.requests[id] # None => db'.requests[id] = db.requests[id]
         /\ db'.requests[id] # None =>
              db'.requests[id] = db.requests[id] \/ db'.requests[id].entry.id = id
<1>1. ASSUME NEW w \in Workers, Commit(w) \/ CommitUnheard(w)
      PROVE  /\ db.requests[id] # None => db'.requests[id] = db.requests[id]
             /\ db'.requests[id] = db.requests[id] \/ db'.requests[id].entry.id = id
  BY <1>1, WrittenRows DEF Commit, CommitUnheard, Result
<1>2. CASE ForceClose \/ CleanUpSeat
  BY <1>2 DEF ForceClose, CleanUpSeat, TypeInv, TypeOK, Database
<1>3. CASE UNCHANGED db
  BY <1>3
<1> QED
  BY <1>1, <1>2, <1>3 DEF Next, Step, vars, Load, Replay, ApplyAct, ApplyTimeout,
     StartHand, Apply, LostToRequest, AlreadyApplied, WriteFails, Restore,
     RestoreLost, Crash

(* An answer newly given is on record when it is given. *)
LEMMA AnswerStep ==
  ASSUME AnswersInv, [Next]_vars, NEW r \in accepted' \ accepted
  PROVE  r.entry.id \in Ids /\ db'.requests[r.entry.id] = r
<1> USE DEF AnswersInv
<1>1. ASSUME NEW w \in Workers, NEW e \in Acts, Replay(w, e)
      PROVE  r.entry.id \in Ids /\ db'.requests[r.entry.id] = r
  <2>1. r = db.requests[e.id] /\ r # None /\ e.id \in Ids /\ db' = db
    BY <1>1 DEF Replay, Acts
  <2> QED BY <2>1 DEF RowsNamed
<1>2. ASSUME NEW w \in Workers, Commit(w)
      PROVE  r.entry.id \in Ids /\ db'.requests[r.entry.id] = r
  <2>1. IsAct(Pending(w)) /\ r = Result(Pending(w), Expected(w) + 1)
    BY <1>2 DEF Commit
  <2>2. Pending(w).id \in Ids
    BY <1>2, <2>1, PendingType DEF Commit, CanCommit, Acts
  <2> QED BY <1>2, <2>1, <2>2, WrittenRows DEF Commit
<1>3. ASSUME NEW w \in Workers, Restore(w)
      PROVE  r.entry.id \in Ids /\ db'.requests[r.entry.id] = r
  <2>1. r = worker[w].reply /\ r # None /\ db' = db
    BY <1>3 DEF Restore
  <2>2. r \in Results
    BY <2>1 DEF TypeInv, TypeOK, Worker
  <2> QED BY <2>1, <2>2 DEF RepliesOnRecord, Results, Acts
<1> QED
  BY <1>1, <1>2, <1>3 DEF Next, Step, vars, Load, ApplyAct, ApplyTimeout,
     StartHand, Apply, CommitUnheard, LostToRequest, AlreadyApplied, WriteFails,
     RestoreLost, Crash, ForceClose, CleanUpSeat

(* A reply a worker keeps for after the restore is a row. *)
LEMMA ReplyStep ==
  ASSUME AnswersInv, [Next]_vars, NEW w \in Workers, worker'[w].reply # None
  PROVE  \/ worker'[w].reply = worker[w].reply
         \/ /\ worker'[w].reply.entry.id \in Ids
            /\ worker'[w].reply = db.requests[worker'[w].reply.entry.id]
<1> USE DEF AnswersInv
<1>0. worker \in [Workers -> Worker]
  BY DEF TypeInv, TypeOK
<1>1. ASSUME NEW v \in Workers, LostToRequest(v), v = w,
             worker'[w].reply # worker[w].reply
      PROVE  /\ worker'[w].reply.entry.id \in Ids
             /\ worker'[w].reply = db.requests[worker'[w].reply.entry.id]
  <2>1. worker[w].pc = "persist" /\ IsAct(Pending(w)) /\ db.requests[Pending(w).id] # None
    BY <1>1 DEF LostToRequest, Reserved
  <2>2. Pending(w).id \in Ids
    BY <2>1, PendingType DEF Acts
  <2>3. worker'[w].reply = db.requests[Pending(w).id]
    BY <1>0, <1>1 DEF LostToRequest, Worker
  <2> QED BY <2>1, <2>2, <2>3 DEF RowsNamed
<1>2. ASSUME NEW v \in Workers, v # w, Step(v)
      PROVE  worker'[w].reply = worker[w].reply
  BY <1>0, <1>2 DEF Step, Load, Replay, ApplyAct, ApplyTimeout, StartHand, Apply,
     Commit, CommitUnheard, LostToRequest, AlreadyApplied, WriteFails, Restore,
     RestoreLost, Crash
<1>3. ASSUME Step(w), ~LostToRequest(w)
      PROVE  worker'[w].reply \in {worker[w].reply, None}
  <2>1. Copied(w).reply = None /\ Unloaded.reply = None
    BY <1>0 DEF Copied, Unloaded, Worker
  <2>2. worker[w] \in Worker
    BY <1>0
  <2> QED
    BY <1>0, <1>3, <2>1, <2>2 DEF Step, Load, Replay, ApplyAct, ApplyTimeout,
       StartHand, Apply, Commit, CommitUnheard, AlreadyApplied, WriteFails,
       Restore, RestoreLost, Crash, Worker
<1>4. CASE UNCHANGED worker
  BY <1>4
<1> QED BY <1>1, <1>2, <1>3, <1>4 DEF Next, ForceClose, CleanUpSeat, vars

(* Every step keeps the answers on record. *)
LEMMA AnswersStep == AnswersInv /\ [Next]_vars => AnswersInv'
<1> SUFFICES ASSUME AnswersInv, [Next]_vars PROVE AnswersInv'
  OBVIOUS
<1> USE DEF AnswersInv
<1>1. TypeInv'
  BY TypeStep
<1>2. RowsNamed'
  BY RowsStep DEF RowsNamed
<1>3. AcceptedIsDurable'
  <2> SUFFICES ASSUME NEW r \in accepted' PROVE db'.requests[r.entry.id] = r
    BY DEF AcceptedIsDurable
  <2>1. CASE r \in accepted
    <3>1. r \in Results /\ db.requests[r.entry.id] = r
      BY <2>1 DEF AcceptedIsDurable, TypeInv, TypeOK
    <3>2. r.entry.id \in Ids /\ r # None
      BY <3>1, NoneAssumption DEF Results, Acts
    <3> QED BY <3>1, <3>2, RowsStep
  <2>2. CASE r \notin accepted
    BY <2>2, AnswerStep
  <2> QED BY <2>1, <2>2
<1>4. RepliesOnRecord'
  <2> SUFFICES ASSUME NEW w \in Workers, worker'[w].reply # None
               PROVE  db'.requests[worker'[w].reply.entry.id] = worker'[w].reply
    BY DEF RepliesOnRecord
  <2>1. /\ worker'[w].reply.entry.id \in Ids
        /\ worker'[w].reply = db.requests[worker'[w].reply.entry.id]
    <3>1. ASSUME worker'[w].reply = worker[w].reply
          PROVE  /\ worker[w].reply.entry.id \in Ids
                 /\ worker[w].reply = db.requests[worker[w].reply.entry.id]
      BY <3>1 DEF RepliesOnRecord, TypeInv, TypeOK, Worker, Results, Acts
    <3> QED BY <3>1, ReplyStep
  <2> QED BY <2>1, RowsStep
<1> QED BY <1>1, <1>2, <1>3, <1>4

(* Whatever fails, an ACT answered "accepted" is on record with exactly    *)
(* that answer: a retry after a crash, a lost acknowledgement or on        *)
(* another worker is answered the same (poker_requests, writeViaDb).       *)
THEOREM AcceptedDurable == Spec => []AcceptedIsDurable
<1>1. Init => AnswersInv
  BY DEF Init, AnswersInv, TypeInv, TypeOK, PendingExists, Database, Worker,
     Unloaded, RowsNamed, RepliesOnRecord, AcceptedIsDurable
<1>2. AnswersInv => AcceptedIsDurable
  BY DEF AnswersInv
<1> QED BY <1>1, <1>2, AnswersStep, PTL DEF Spec

----------------------------------------------------------------------------
(***************************************************************************)
(* Versions.  No row is ahead of the stored version, and the version a row *)
(* is written with is the one the write makes: the compare-and-swap is     *)
(* what keeps two requests from sharing one.                               *)
(***************************************************************************)
RowsBehind == \A id \in Ids :
  db.requests[id] # None => db.requests[id].version <= db.version

(* The inductive invariant behind VersionsAreUnique. *)
VersionsInv == TypeInv /\ RowsBehind /\ VersionsAreUnique

(* The version grows with a write, and a row written carries the new one;  *)
(* only one row is.                                                        *)
LEMMA WrittenVersion ==
  ASSUME TypeInv, NEW w \in Workers, CanCommit(w), db' = Written(w), NEW id \in Ids,
         db'.requests[id] # db.requests[id]
  PROVE  /\ IsAct(Pending(w)) /\ Pending(w).id = id
         /\ db'.requests[id].version = db.version + 1
<1>1. /\ IsAct(Pending(w)) /\ Pending(w).id = id
      /\ db'.requests[id] = Result(Pending(w), Expected(w) + 1)
  BY WrittenRows
<1>2. db.version = Expected(w)
  BY DEF CanCommit
<1> QED BY <1>1, <1>2 DEF Result

(* A write of a worker keeps the rows behind the version and apart. *)
LEMMA WriteKeepsVersions ==
  ASSUME VersionsInv, NEW w \in Workers, CanCommit(w), db' = Written(w)
  PROVE  RowsBehind' /\ VersionsAreUnique'
<1> USE DEF VersionsInv
<1>1. db.version \in Nat /\ db'.version = db.version + 1
  BY DEF TypeInv, TypeOK, Database, Written
<1>2. \A id \in Ids : db.requests[id] # None => db.requests[id].version \in Nat
  BY DEF TypeInv, TypeOK, Database, Results
<1>3. RowsBehind'
  <2> SUFFICES ASSUME NEW id \in Ids, db'.requests[id] # None
               PROVE  db'.requests[id].version <= db'.version
    BY DEF RowsBehind
  <2>1. CASE db'.requests[id] = db.requests[id]
    BY <1>1, <1>2, <2>1 DEF RowsBehind
  <2>2. CASE db'.requests[id] # db.requests[id]
    BY <1>1, <2>2, WrittenVersion
  <2> QED BY <2>1, <2>2
<1>4. VersionsAreUnique'
  <2> SUFFICES ASSUME NEW i \in Ids, NEW j \in Ids,
                      db'.requests[i] # None, db'.requests[j] # None,
                      db'.requests[i].version = db'.requests[j].version
               PROVE  i = j
    BY DEF VersionsAreUnique
  <2>1. CASE db'.requests[i] = db.requests[i] /\ db'.requests[j] = db.requests[j]
    BY <2>1 DEF VersionsAreUnique
  <2>2. CASE db'.requests[i] # db.requests[i] /\ db'.requests[j] # db.requests[j]
    BY <2>2, WrittenVersion
  <2>3. CASE db'.requests[i] # db.requests[i] /\ db'.requests[j] = db.requests[j]
    <3>1. db'.requests[i].version = db.version + 1
      BY <2>3, WrittenVersion
    <3>2. db.requests[j].version <= db.version /\ db.requests[j].version \in Nat
      BY <1>2, <2>3 DEF RowsBehind
    <3> QED BY <1>1, <2>3, <3>1, <3>2
  <2>4. CASE db'.requests[i] = db.requests[i] /\ db'.requests[j] # db.requests[j]
    <3>1. db'.requests[j].version = db.version + 1
      BY <2>4, WrittenVersion
    <3>2. db.requests[i].version <= db.version /\ db.requests[i].version \in Nat
      BY <1>2, <2>4 DEF RowsBehind
    <3> QED BY <1>1, <2>4, <3>1, <3>2
  <2> QED BY <2>1, <2>2, <2>3, <2>4
<1> QED BY <1>3, <1>4

(* So does whatever leaves the rows alone, as an admin's close does.       *)
LEMMA SameRowsKeepVersions ==
  ASSUME VersionsInv, db'.requests = db.requests,
         db'.version = db.version \/ db'.version = db.version + 1
  PROVE  RowsBehind' /\ VersionsAreUnique'
<1>1. db.version \in Nat
  BY DEF VersionsInv, TypeInv, TypeOK, Database
<1>2. \A id \in Ids : db.requests[id] # None => db.requests[id].version \in Nat
  BY DEF VersionsInv, TypeInv, TypeOK, Database, Results
<1>3. RowsBehind'
  BY <1>1, <1>2 DEF VersionsInv, RowsBehind
<1>4. VersionsAreUnique'
  BY DEF VersionsInv, VersionsAreUnique
<1> QED BY <1>3, <1>4

(* Every step keeps it. *)
LEMMA VersionsStep == VersionsInv /\ [Next]_vars => VersionsInv'
<1> SUFFICES ASSUME VersionsInv, [Next]_vars PROVE VersionsInv'
  OBVIOUS
<1>1. TypeInv'
  BY TypeStep DEF VersionsInv
<1> SUFFICES RowsBehind' /\ VersionsAreUnique'
  BY <1>1 DEF VersionsInv
<1>2. ASSUME NEW w \in Workers, Commit(w) \/ CommitUnheard(w)
      PROVE  RowsBehind' /\ VersionsAreUnique'
  BY <1>2, WriteKeepsVersions DEF Commit, CommitUnheard, CanCommit
<1>3. CASE ForceClose \/ CleanUpSeat
  <2>1. db \in Database
    BY DEF VersionsInv, TypeInv, TypeOK
  <2>2. /\ db'.requests = db.requests
        /\ db'.version = db.version \/ db'.version = db.version + 1
    BY <1>3, <2>1 DEF ForceClose, CleanUpSeat, Database
  <2> QED BY <2>2, SameRowsKeepVersions
<1>4. CASE db' = db
  BY <1>4, SameRowsKeepVersions
<1>5. ASSUME NEW w \in Workers, Step(w)
      PROVE  Commit(w) \/ CommitUnheard(w) \/ db' = db
  BY <1>5 DEF Step, Load, Replay, ApplyAct, ApplyTimeout, StartHand, Apply,
     LostToRequest, AlreadyApplied, WriteFails, Restore, RestoreLost, Crash
<1> QED BY <1>2, <1>3, <1>4, <1>5 DEF Next, vars

(* No two requests are ever recorded with the same version of the table:   *)
(* two workers that both applied an ACT on the version they hold cannot    *)
(* both write it, whatever is restored, crashes or goes unheard            *)
(* (the expectedVersion of writeViaDb).                                    *)
THEOREM VersionsNeverShared == Spec => []VersionsAreUnique
<1>1. Init => VersionsInv
  BY DEF Init, VersionsInv, TypeInv, TypeOK, PendingExists, Database, Worker,
     Unloaded, RowsBehind, VersionsAreUnique
<1>2. VersionsInv => VersionsAreUnique
  BY DEF VersionsInv
<1> QED BY <1>1, <1>2, VersionsStep, PTL DEF Spec
=============================================================================
