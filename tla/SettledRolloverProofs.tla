----------------------- MODULE SettledRolloverProofs -----------------------
(***************************************************************************)
(* What holds of SettledRollover however long the queue, however many      *)
(* faults and versions: hands are durable before they are shown, dealt     *)
(* once and after the reveal, and a settled table is looked after unless a *)
(* wake-up was lost.                                                       *)
(***************************************************************************)
EXTENDS SettledRollover, TLAPS

(* Hands are named after versions. *)
Named == /\ db.hand <= db.version
         /\ copy # None => copy.hand <= copy.version

(* A copy that does not know the current hand is an old settled one.       *)
SameHand ==
  copy # None => \/ copy.hand = db.hand
                 \/ /\ copy.hand < db.hand /\ copy.version < db.version
                    /\ Settled(copy) /\ db.phase # "SETTLED"

ActWaits == {"act", "act_write", "act_restore"}
RebuyWaits == {"rebuy", "rebuy_restore"}
RolloverWaits == {"leaves", "leaves_restore", "write", "restore", "fallback_restore",
                  "fallback_write", "fallback_install"}

(* pc belongs to the command that runs. *)
PcFits ==
  pc # "nothing" =>
    /\ queue # <<>>
    /\ \/ queue[1].kind = "act" /\ pc \in ActWaits
       \/ queue[1].kind = "rebuy" /\ pc \in RebuyWaits
       \/ queue[1].kind = "rollover" /\ pc \in RolloverWaits

(* What the running command relies on.                                     *)
Underway ==
  /\ pc = "act_write" => Settled(copy) /\ copy.hand = db.hand
  /\ pc \in RolloverWaits => Settled(copy)
  /\ pc \in {"leaves", "leaves_restore"} => copy.version = Generation

(* A settled table was published, or clients are told to resync.           *)
Shown ==
  Settled(copy) /\ pc \notin {"act_write", "act_restore"}
    => revealed = copy.hand \/ resync

(* The timer is for the copy in place.                                     *)
TimerCurrent ==
  timer # None /\ copy # None => Settled(copy) /\ timer.generation = copy.version

IInv == TypeOK /\ Named /\ SameHand /\ PcFits /\ Underway /\ Shown /\ TimerCurrent

(* Something will look at the settled table.                               *)
WatchWaits == RolloverWaits \cup {"act_write", "act_restore", "rebuy_restore"}
Watcher(c) == c.kind = "bot_step" \/ (c.kind = "rollover" /\ c.generation = copy.version)

Watched ==
  Settled(copy) /\ copy.players # "too_few" =>
    \/ timer # None \/ resync \/ lost
    \/ pc \in WatchWaits
    \/ \E i \in DOMAIN queue : Watcher(queue[i])

----------------------------------------------------------------------------
(***************************************************************************)
(* Sequences.                                                              *)
(***************************************************************************)

(* A command put at the end of a queue leaves the others where they are.   *)
LEMMA AppendElements ==
  ASSUME NEW S, NEW q \in Seq(S), NEW e \in S
  PROVE  /\ Append(q, e) \in Seq(S)
         /\ Append(q, e) # <<>>
         /\ \A i \in DOMAIN q : i \in DOMAIN Append(q, e) /\ Append(q, e)[i] = q[i]
         /\ \E i \in DOMAIN Append(q, e) : Append(q, e)[i] = e
<1>1. Len(q) + 1 \in DOMAIN Append(q, e) /\ Append(q, e)[Len(q) + 1] = e
  OBVIOUS
<1> QED
  BY <1>1

(* When the first command is done the others move up.                      *)
LEMMA TailElements ==
  ASSUME NEW S, NEW q \in Seq(S), q # <<>>
  PROVE  /\ Tail(q) \in Seq(S)
         /\ 1 \in DOMAIN q /\ q[1] \in S
         /\ \A i \in DOMAIN q : i # 1 => i - 1 \in DOMAIN Tail(q) /\ Tail(q)[i - 1] = q[i]
OBVIOUS

----------------------------------------------------------------------------
(***************************************************************************)
(* Types.                                                                  *)
(***************************************************************************)

(* Timers are timers, whatever table they are set for.                     *)
LEMMA TimerTypes ==
  ASSUME TypeOK
  PROVE  /\ \A c \in Table \cup {None} :
              /\ Published(c) \in Nat
              /\ \A hand : RevealTimer(c, hand) \in Timer \cup {None}
              /\ \A g \in Nat, t \in Timer \cup {None} : RetryTimer(c, g, t) \in Timer \cup {None}
BY DEF TypeOK, Published, RevealTimer, RetryTimer, Settled, Table, Timer

(* The queue holds commands after any of the steps that change it.         *)
LEMMA QueueTypes ==
  ASSUME TypeOK
  PROVE  /\ \A e \in Commands : Append(queue, e) \in Seq(Commands)
         /\ queue # <<>> => /\ Tail(queue) \in Seq(Commands)
                            /\ queue[1].generation \in Nat
                            /\ \A e \in Commands : Append(Tail(queue), e) \in Seq(Commands)
         /\ <<>> \in Seq(Commands)
         /\ \A kind \in {"act", "rebuy", "bot_step"} : Command(kind) \in Commands
         /\ \A g \in Nat : RolloverOf(g) \in Commands
<1>1. queue \in Seq(Commands)
  BY DEF TypeOK
<1>2. queue # <<>> => Tail(queue) \in Seq(Commands) /\ queue[1] \in Commands
  BY <1>1, TailElements
<1>3. \A q \in Seq(Commands), e \in Commands : Append(q, e) \in Seq(Commands)
  BY AppendElements
<1> QED
  BY <1>1, <1>2, <1>3 DEF Command, RolloverOf, Commands

(* Records of the right types are tables.                                  *)
LEMMA TableTypes ==
  /\ \A t \in Table : /\ t.version \in Nat /\ t.hand \in Nat /\ t.phase \in Phases
                     /\ t.players \in Players /\ t.leaving \in BOOLEAN
  /\ \A t \in Table, phase \in Phases, hand \in Nat, players \in Players, leaving \in BOOLEAN :
       After(t, phase, hand, players, leaving) \in Table
BY DEF Table, After

(* The commands that write have a copy to write.                           *)
LEMMA CopyThere ==
  ASSUME TypeOK, Underway, pc \in {"act_write"} \cup RolloverWaits
  PROVE  copy \in Table /\ Dealt \in Table
<1>1. copy \in Table
  BY DEF TypeOK, Underway, Settled
<1> QED
  BY <1>1, TableTypes DEF Dealt, Phases

(* What the other writes store. *)
LEMMA StoredTypes ==
  ASSUME TypeOK
  PROVE  /\ StoreRebuy => db' \in Table /\ queue # <<>>
         /\ StoreLeaves => db' \in Table /\ queue # <<>>
         /\ ActApplied => copy' \in Table
         /\ ForceClose => db' \in Table
<1>1. StoreRebuy => db' \in Table /\ queue # <<>>
  <2> SUFFICES ASSUME StoreRebuy PROVE db' \in Table /\ queue # <<>>
    OBVIOUS
  <2>1. PICK players \in {"enough", "with_bots"} :
          db' = After(db, db.phase, db.hand, players, db.leaving)
    BY DEF StoreRebuy
  <2> QED
    BY <2>1, TableTypes DEF StoreRebuy, Runs, TypeOK, Players
<1>2. StoreLeaves => db' \in Table /\ queue # <<>>
  <2> SUFFICES ASSUME StoreLeaves PROVE db' \in Table /\ queue # <<>>
    OBVIOUS
  <2>1. PICK players \in Players, phase \in {"SETTLED", "CLOSED"} :
          db' = After(db, phase, db.hand, players, FALSE)
    BY DEF StoreLeaves
  <2> QED
    BY <2>1, TableTypes DEF StoreLeaves, Runs, TypeOK, Phases
<1>3. ActApplied => copy' \in Table
  <2> SUFFICES ASSUME ActApplied PROVE copy' \in Table
    OBVIOUS
  <2>1. PICK players \in Players, leaving \in BOOLEAN :
          copy' = After(copy, "SETTLED", copy.hand, players, leaving)
    BY DEF ActApplied
  <2>2. copy \in Table
    BY DEF ActApplied, TypeOK
  <2> QED
    BY <2>1, <2>2, TableTypes DEF Phases
<1>4. ForceClose => db' \in Table
  BY TableTypes DEF ForceClose, TypeOK, Phases
<1> QED
  BY <1>1, <1>2, <1>3, <1>4

(* A retry sets a timer. *)
LEMMA RetryTypes ==
  ASSUME TypeOK, queue # <<>>, RetryLater
  PROVE  timer' \in Timer \cup {None} /\ lost' \in BOOLEAN
<1>1. timer' = RetryTimer(copy, Generation, timer) /\ lost' \in BOOLEAN
  BY DEF RetryLater, SetTimer, TypeOK
<1>2. Generation \in Nat
  BY QueueTypes DEF Generation, Running
<1> QED
  BY <1>1, <1>2, TimerTypes DEF TypeOK

LEMMA TypeStep ==
  ASSUME TypeOK, Underway, [Next]_vars
  PROVE  TypeOK'
<1>1. CASE BeginAct
  BY <1>1 DEF TypeOK, BeginAct, Runs, Wait, Waits
<1>2. CASE ActApplied
  BY <1>2, StoredTypes DEF TypeOK, ActApplied, Runs, Wait, Waits
<1>3. CASE ActStored
  BY <1>3, TimerTypes, QueueTypes, StoredTypes, CopyThere DEF TypeOK, ActStored, StoreAct, Runs, Publish, SetTimer, DoneAndBotStep, RolloverWaits, Waits
<1>4. CASE ActUnheard
  BY <1>4, StoredTypes, CopyThere DEF TypeOK, ActUnheard, StoreAct, Runs, Fault, Wait, RolloverWaits, Waits
<1>5. CASE ActFails
  BY <1>5 DEF TypeOK, ActFails, Runs, Fault, NoFault, Wait, Waits
<1>6. CASE ActRefused
  BY <1>6, QueueTypes DEF TypeOK, ActRefused, Runs, Done, Waits
<1>7. CASE BeginRebuy
  BY <1>7 DEF TypeOK, BeginRebuy, Runs, Wait, Waits
<1>8. CASE RebuyStored
  BY <1>8, StoredTypes DEF TypeOK, RebuyStored, Runs, Wait, Waits
<1>9. CASE RebuyUnheard
  BY <1>9, QueueTypes, StoredTypes DEF TypeOK, RebuyUnheard, Runs, Fault, Done, Waits
<1>10. CASE RebuyRefused
  BY <1>10, QueueTypes DEF TypeOK, RebuyRefused, Runs, Done, Waits
<1>11. CASE Restored
  BY <1>11, TimerTypes, QueueTypes DEF TypeOK, Restored, Runs, Done, DoneAndBotStep, Publish, SetTimer, Waits
<1>12. CASE RestoreFails
  BY <1>12, QueueTypes DEF TypeOK, RestoreFails, Runs, Fault, Done, Waits
<1>13. CASE BotStep
  BY <1>13, TimerTypes, QueueTypes DEF TypeOK, BotStep, Runs, Done, SetTimer, Settled, Waits
<1>14. CASE Begin
  BY <1>14, QueueTypes DEF TypeOK, Begin, Runs, Wait, Done, Waits
<1>15. CASE LeavesFail
  BY <1>15, QueueTypes, RetryTypes DEF TypeOK, LeavesFail, Runs, Fault, Done, Waits
<1>16. CASE NoLeaves
  BY <1>16, QueueTypes DEF TypeOK, NoLeaves, Runs, Prepare, Done, Wait, Waits
<1>17. CASE LeavesStored
  BY <1>17, StoredTypes DEF TypeOK, LeavesStored, Runs, Wait, Waits
<1>18. CASE LeavesUnheard
  BY <1>18, QueueTypes, StoredTypes, RetryTypes DEF TypeOK, LeavesUnheard, Runs, Fault, Done, Waits
<1>19. CASE AlreadyClosed
  BY <1>19 DEF TypeOK, AlreadyClosed, Runs, Wait, Waits
<1>20. CASE LeavesRestored
  BY <1>20, TimerTypes, QueueTypes DEF TypeOK, LeavesRestored, Runs, Publish, SetTimer, Prepare, Done, Wait, Waits
<1>21. CASE Evicted
  BY <1>21, QueueTypes DEF TypeOK, Evicted, Runs, Done, Waits
<1>22. CASE LeavesRestoreFails
  BY <1>22, QueueTypes, RetryTypes DEF TypeOK, LeavesRestoreFails, Runs, Fault, Done, Waits
<1>23. CASE Deal
  BY <1>23, TimerTypes, QueueTypes, StoredTypes, CopyThere DEF TypeOK, Deal, Runs, CanDeal, Publish, SetTimer, DoneAndBotStep, RolloverWaits, Waits
<1>24. CASE DealUnheard
  BY <1>24, StoredTypes, CopyThere DEF TypeOK, DealUnheard, Runs, CanDeal, Fault, Wait, RolloverWaits, Waits
<1>25. CASE DealFails
  BY <1>25 DEF TypeOK, DealFails, Runs, Fault, NoFault, Wait, Waits
<1>26. CASE Recover
  BY <1>26, TimerTypes, QueueTypes DEF TypeOK, Recover, Runs, SetTimer, Done, Generation, Running, Waits
<1>27. CASE RecoverFails
  BY <1>27, QueueTypes, RetryTypes DEF TypeOK, RecoverFails, Runs, Fault, Done, Waits
<1>28. CASE Exhausted
  BY <1>28 DEF TypeOK, Exhausted, Runs, CanDeal, Wait, Waits
<1>29. CASE FallbackRestored
  BY <1>29, TimerTypes, QueueTypes DEF TypeOK, FallbackRestored, Runs, SetTimer, Settled, Wait, Done, Waits
<1>30. CASE FallbackDealt
  BY <1>30, StoredTypes, CopyThere DEF TypeOK, FallbackDealt, Runs, CanDeal, Wait, RolloverWaits, Waits
<1>31. CASE FallbackInstalled
  BY <1>31, TimerTypes, QueueTypes DEF TypeOK, FallbackInstalled, Runs, Publish, SetTimer, DoneAndBotStep, Waits
<1>32. CASE FallbackFails
  BY <1>32, QueueTypes DEF TypeOK, FallbackFails, Runs, Fault, NoFault, Done, Waits
<1>33. CASE FireTimer
  BY <1>33, QueueTypes DEF TypeOK, FireTimer, Rollovers, Timer
<1>34. CASE Load
  BY <1>34, TimerTypes DEF TypeOK, Load, Publish, SetTimer, Waits
<1>35. CASE Snapshot
  BY <1>35, TimerTypes DEF TypeOK, Snapshot, Publish, SetTimer, Waits
<1>36. CASE Crash
  BY <1>36, QueueTypes DEF TypeOK, Crash, Rollovers, Waits
<1>37. CASE ForceClose
  BY <1>37, StoredTypes DEF TypeOK, ForceClose, Waits
<1>38. CASE \E kind \in {"act", "rebuy"} : Ask(kind)
  BY <1>38, QueueTypes DEF TypeOK, Ask
<1>39. CASE UNCHANGED vars
  BY <1>39 DEF TypeOK, vars
<1> QED
  BY <1>1, <1>2, <1>3, <1>4, <1>5, <1>6, <1>7, <1>8, <1>9, <1>10, <1>11, <1>12, <1>13, <1>14, <1>15, <1>16, <1>17, <1>18, <1>19, <1>20, <1>21, <1>22, <1>23, <1>24, <1>25, <1>26, <1>27, <1>28, <1>29, <1>30, <1>31, <1>32, <1>33, <1>34, <1>35, <1>36, <1>37, <1>38, <1>39 DEF Next, RunCommand

----------------------------------------------------------------------------
(***************************************************************************)
(* Hands.                                                                  *)
(***************************************************************************)

(* The ways a step can change the stored table and the copy.               *)
Rest == UNCHANGED <<db, copy>>
CopyRead == db' = db /\ copy' = db
CopyDropped == db' = db /\ copy' = None
CopyAhead ==
  /\ copy # None /\ copy.phase = "LIVE"
  /\ \E players \in Players, leaving \in BOOLEAN :
       copy' = After(copy, "SETTLED", copy.hand, players, leaving)
  /\ db' = db
HandKept ==
  /\ \E players \in Players, leaving \in BOOLEAN, phase \in {db.phase, "CLOSED"} :
       db' = After(db, phase, db.hand, players, leaving)
  /\ copy' = copy
ActInstalled == pc = "act_write" /\ db' = copy /\ copy' = copy
NewHand ==
  /\ pc \in {"write", "fallback_write"} /\ CanDeal
  /\ db' = Dealt /\ copy' \in {copy, Dealt}

LEMMA Effects ==
  ASSUME TypeOK, [Next]_vars
  PROVE  Rest \/ CopyRead \/ CopyDropped \/ CopyAhead \/ HandKept \/ ActInstalled \/ NewHand
<1>1. CASE Load \/ Restored \/ LeavesRestored \/ Recover \/ FallbackRestored \/ FallbackInstalled
  BY <1>1 DEF Load, Restored, LeavesRestored, Recover, FallbackRestored, FallbackInstalled, CopyRead
<1>2. CASE Crash \/ Evicted
  BY <1>2 DEF Crash, Evicted, CopyDropped
<1>3. CASE ActApplied
  BY <1>3 DEF ActApplied, CopyAhead
<1>4. CASE RebuyStored \/ RebuyUnheard
  BY <1>4 DEF RebuyStored, RebuyUnheard, StoreRebuy, HandKept, Players, TypeOK, Table
<1>5. CASE LeavesStored \/ LeavesUnheard
  BY <1>5 DEF LeavesStored, LeavesUnheard, StoreLeaves, HandKept
<1>6. CASE ForceClose
  BY <1>6 DEF ForceClose, HandKept, TypeOK, Table
<1>7. CASE ActStored \/ ActUnheard
  BY <1>7 DEF ActStored, ActUnheard, StoreAct, ActInstalled, Runs
<1>8. CASE Deal \/ DealUnheard \/ FallbackDealt
  BY <1>8 DEF Deal, DealUnheard, FallbackDealt, NewHand, Runs
<1>9. CASE BeginAct \/ ActFails \/ ActRefused \/ BeginRebuy \/ RebuyRefused \/ RestoreFails
           \/ BotStep \/ Begin \/ LeavesFail \/ NoLeaves \/ AlreadyClosed
  BY <1>9 DEF BeginAct, ActFails, ActRefused, BeginRebuy, RebuyRefused, RestoreFails, BotStep,
              Begin, LeavesFail, NoLeaves, AlreadyClosed, Rest
<1>10. CASE LeavesRestoreFails \/ DealFails \/ RecoverFails \/ Exhausted \/ FallbackFails
            \/ FireTimer \/ Snapshot \/ UNCHANGED vars
  BY <1>10 DEF LeavesRestoreFails, DealFails, RecoverFails, Exhausted, FallbackFails, FireTimer,
               Snapshot, vars, Rest
<1>11. CASE \E kind \in {"act", "rebuy"} : Ask(kind)
  BY <1>11 DEF Ask, Rest
<1> QED
  BY <1>1, <1>2, <1>3, <1>4, <1>5, <1>6, <1>7, <1>8, <1>9, <1>10, <1>11 DEF Next, RunCommand

(* No write or read of the table makes the copy forget which hand is on.   *)
LEMMA HandStep ==
  ASSUME TypeOK, Named, SameHand, Underway, [Next]_vars
  PROVE  Named' /\ SameHand'
<1> USE DEF Named, SameHand, Settled
<1>t. db \in Table /\ (copy # None => copy \in Table)
  BY DEF TypeOK
<1>1. CASE Rest
  BY <1>1 DEF Rest
<1>2. CASE CopyRead
  BY <1>2 DEF CopyRead
<1>3. CASE CopyDropped
  BY <1>3 DEF CopyDropped
<1>4. CASE CopyAhead
  BY <1>4, <1>t DEF CopyAhead, After, Table
<1>5. CASE HandKept
  BY <1>5, <1>t DEF HandKept, After, Table
<1>6. CASE ActInstalled
  BY <1>6 DEF ActInstalled, Underway
<1>7. CASE NewHand
  BY <1>7, <1>t DEF NewHand, CanDeal, Dealt, After, Table, Underway, RolloverWaits
<1> QED
  BY <1>1, <1>2, <1>3, <1>4, <1>5, <1>6, <1>7, Effects

----------------------------------------------------------------------------
(***************************************************************************)
(* Commands, reveals and timers.                                           *)
(***************************************************************************)

(* The command that runs stays first. *)
LEMMA FirstStays ==
  ASSUME TypeOK, NEW e \in Commands, queue # <<>>
  PROVE  Append(queue, e) # <<>> /\ Append(queue, e)[1] = queue[1]
<1>1. queue \in Seq(Commands)
  BY DEF TypeOK
<1>2. 1 \in DOMAIN queue
  BY <1>1, TailElements
<1> QED
  BY <1>1, <1>2, AppendElements

(* One part of the invariant per lemma, one step per action.               *)
(* Waits follow each other within a command. *)
LEMMA PcStep ==
  ASSUME TypeOK, PcFits, [Next]_vars
  PROVE  PcFits'
<1>1. CASE BeginAct
  BY <1>1 DEF BeginAct, Runs, Wait, Running, PcFits, ActWaits, RebuyWaits, RolloverWaits
<1>2. CASE ActApplied
  BY <1>2 DEF ActApplied, Runs, Wait, Running, PcFits, ActWaits, RebuyWaits, RolloverWaits
<1>3. CASE ActStored
  BY <1>3 DEF ActStored, StoreAct, Runs, Publish, SetTimer, DoneAndBotStep, Running, PcFits, ActWaits, RebuyWaits, RolloverWaits
<1>4. CASE ActUnheard
  BY <1>4 DEF ActUnheard, StoreAct, Runs, Fault, Wait, Running, PcFits, ActWaits, RebuyWaits, RolloverWaits
<1>5. CASE ActFails
  BY <1>5 DEF ActFails, Runs, Fault, NoFault, Wait, Running, PcFits, ActWaits, RebuyWaits, RolloverWaits
<1>6. CASE ActRefused
  BY <1>6 DEF ActRefused, Runs, Done, Running, PcFits, ActWaits, RebuyWaits, RolloverWaits
<1>7. CASE BeginRebuy
  BY <1>7 DEF BeginRebuy, Runs, Wait, Running, PcFits, ActWaits, RebuyWaits, RolloverWaits
<1>8. CASE RebuyStored
  BY <1>8 DEF RebuyStored, StoreRebuy, Runs, Wait, Running, PcFits, ActWaits, RebuyWaits, RolloverWaits
<1>9. CASE RebuyUnheard
  BY <1>9 DEF RebuyUnheard, StoreRebuy, Runs, Fault, Done, Running, PcFits, ActWaits, RebuyWaits, RolloverWaits
<1>10. CASE RebuyRefused
  BY <1>10 DEF RebuyRefused, Runs, Done, Running, PcFits, ActWaits, RebuyWaits, RolloverWaits
<1>11. CASE Restored
  BY <1>11 DEF Restored, Runs, Done, DoneAndBotStep, Publish, SetTimer, Running, PcFits, ActWaits, RebuyWaits, RolloverWaits
<1>12. CASE RestoreFails
  BY <1>12 DEF RestoreFails, Runs, Fault, Done, Running, PcFits, ActWaits, RebuyWaits, RolloverWaits
<1>13. CASE BotStep
  BY <1>13 DEF BotStep, Runs, Done, SetTimer, Settled, Running, PcFits, ActWaits, RebuyWaits, RolloverWaits
<1>14. CASE Begin
  BY <1>14 DEF Begin, Runs, Wait, Done, Running, PcFits, ActWaits, RebuyWaits, RolloverWaits
<1>15. CASE LeavesFail
  BY <1>15 DEF LeavesFail, Runs, Fault, RetryLater, SetTimer, Done, Generation, Running, PcFits, ActWaits, RebuyWaits, RolloverWaits
<1>16. CASE NoLeaves
  BY <1>16 DEF NoLeaves, Runs, Prepare, Done, Wait, Running, PcFits, ActWaits, RebuyWaits, RolloverWaits
<1>17. CASE LeavesStored
  BY <1>17 DEF LeavesStored, StoreLeaves, Runs, Wait, Running, PcFits, ActWaits, RebuyWaits, RolloverWaits
<1>18. CASE LeavesUnheard
  BY <1>18 DEF LeavesUnheard, StoreLeaves, Runs, Fault, RetryLater, SetTimer, Done, Generation, Running, PcFits, ActWaits, RebuyWaits, RolloverWaits
<1>19. CASE AlreadyClosed
  BY <1>19 DEF AlreadyClosed, Runs, Wait, Running, PcFits, ActWaits, RebuyWaits, RolloverWaits
<1>20. CASE LeavesRestored
  BY <1>20 DEF LeavesRestored, Runs, Publish, SetTimer, Prepare, Done, Wait, Running, PcFits, ActWaits, RebuyWaits, RolloverWaits
<1>21. CASE Evicted
  BY <1>21 DEF Evicted, Runs, Done, Running, PcFits, ActWaits, RebuyWaits, RolloverWaits
<1>22. CASE LeavesRestoreFails
  BY <1>22 DEF LeavesRestoreFails, Runs, Fault, RetryLater, SetTimer, Done, Generation, Running, PcFits, ActWaits, RebuyWaits, RolloverWaits
<1>23. CASE Deal
  BY <1>23 DEF Deal, Runs, CanDeal, Dealt, Publish, SetTimer, DoneAndBotStep, Running, PcFits, ActWaits, RebuyWaits, RolloverWaits
<1>24. CASE DealUnheard
  BY <1>24 DEF DealUnheard, Runs, CanDeal, Dealt, Fault, Wait, Running, PcFits, ActWaits, RebuyWaits, RolloverWaits
<1>25. CASE DealFails
  BY <1>25 DEF DealFails, Runs, Fault, NoFault, Wait, Running, PcFits, ActWaits, RebuyWaits, RolloverWaits
<1>26. CASE Recover
  BY <1>26 DEF Recover, Runs, SetTimer, Done, Generation, Running, PcFits, ActWaits, RebuyWaits, RolloverWaits
<1>27. CASE RecoverFails
  BY <1>27 DEF RecoverFails, Runs, Fault, RetryLater, SetTimer, Done, Generation, Running, PcFits, ActWaits, RebuyWaits, RolloverWaits
<1>28. CASE Exhausted
  BY <1>28 DEF Exhausted, Runs, CanDeal, Wait, Running, PcFits, ActWaits, RebuyWaits, RolloverWaits
<1>29. CASE FallbackRestored
  BY <1>29 DEF FallbackRestored, Runs, SetTimer, Settled, Wait, Done, Running, PcFits, ActWaits, RebuyWaits, RolloverWaits
<1>30. CASE FallbackDealt
  BY <1>30 DEF FallbackDealt, Runs, CanDeal, Dealt, Wait, Running, PcFits, ActWaits, RebuyWaits, RolloverWaits
<1>31. CASE FallbackInstalled
  BY <1>31 DEF FallbackInstalled, Runs, Publish, SetTimer, DoneAndBotStep, Running, PcFits, ActWaits, RebuyWaits, RolloverWaits
<1>32. CASE FallbackFails
  BY <1>32 DEF FallbackFails, Runs, Fault, NoFault, Done, Running, PcFits, ActWaits, RebuyWaits, RolloverWaits
<1>33. CASE FireTimer
  BY <1>33, FirstStays, QueueTypes DEF FireTimer, Rollovers, PcFits, ActWaits, RebuyWaits, RolloverWaits, TypeOK, Timer
<1>34. CASE Load
  BY <1>34 DEF Load, Publish, SetTimer, PcFits, ActWaits, RebuyWaits, RolloverWaits
<1>35. CASE Snapshot
  BY <1>35 DEF Snapshot, Publish, SetTimer, PcFits, ActWaits, RebuyWaits, RolloverWaits
<1>36. CASE Crash
  BY <1>36 DEF Crash, PcFits, ActWaits, RebuyWaits, RolloverWaits
<1>37. CASE ForceClose
  BY <1>37 DEF ForceClose, PcFits, ActWaits, RebuyWaits, RolloverWaits
<1>38. CASE \E kind \in {"act", "rebuy"} : Ask(kind)
  BY <1>38, FirstStays, QueueTypes DEF Ask, PcFits, ActWaits, RebuyWaits, RolloverWaits
<1>39. CASE UNCHANGED vars
  BY <1>39 DEF vars, PcFits, ActWaits, RebuyWaits, RolloverWaits
<1> QED
  BY <1>1, <1>2, <1>3, <1>4, <1>5, <1>6, <1>7, <1>8, <1>9, <1>10, <1>11, <1>12, <1>13, <1>14, <1>15, <1>16, <1>17, <1>18, <1>19, <1>20, <1>21, <1>22, <1>23, <1>24, <1>25, <1>26, <1>27, <1>28, <1>29, <1>30, <1>31, <1>32, <1>33, <1>34, <1>35, <1>36, <1>37, <1>38, <1>39 DEF Next, RunCommand
(* What the running command relies on stays true while it waits. *)
LEMMA UnderwayStep ==
  ASSUME TypeOK, SameHand, PcFits, Underway, [Next]_vars
  PROVE  Underway'
<1>1. CASE BeginAct
  BY <1>1 DEF BeginAct, Runs, Wait, Running, PcFits, Underway, SameHand, RolloverWaits, ActWaits, RebuyWaits, Settled, Generation
<1>2. CASE ActApplied
  BY <1>2, StoredTypes, NoneAssumption DEF ActApplied, Runs, Wait, Running, PcFits, Underway, SameHand, RolloverWaits, ActWaits, RebuyWaits, Settled, Generation, After
<1>3. CASE ActStored
  BY <1>3 DEF ActStored, StoreAct, Runs, Publish, SetTimer, DoneAndBotStep, Running, PcFits, Underway, SameHand, RolloverWaits, ActWaits, RebuyWaits, Settled, Generation
<1>4. CASE ActUnheard
  BY <1>4 DEF ActUnheard, StoreAct, Runs, Fault, Wait, Running, PcFits, Underway, SameHand, RolloverWaits, ActWaits, RebuyWaits, Settled, Generation
<1>5. CASE ActFails
  BY <1>5 DEF ActFails, Runs, Fault, NoFault, Wait, Running, PcFits, Underway, SameHand, RolloverWaits, ActWaits, RebuyWaits, Settled, Generation
<1>6. CASE ActRefused
  BY <1>6 DEF ActRefused, Runs, Done, Running, PcFits, Underway, SameHand, RolloverWaits, ActWaits, RebuyWaits, Settled, Generation
<1>7. CASE BeginRebuy
  BY <1>7 DEF BeginRebuy, Runs, Wait, Running, PcFits, Underway, SameHand, RolloverWaits, ActWaits, RebuyWaits, Settled, Generation
<1>8. CASE RebuyStored
  BY <1>8 DEF RebuyStored, StoreRebuy, Runs, Wait, Running, PcFits, Underway, SameHand, RolloverWaits, ActWaits, RebuyWaits, Settled, Generation
<1>9. CASE RebuyUnheard
  BY <1>9 DEF RebuyUnheard, StoreRebuy, Runs, Fault, Done, Running, PcFits, Underway, SameHand, RolloverWaits, ActWaits, RebuyWaits, Settled, Generation
<1>10. CASE RebuyRefused
  BY <1>10 DEF RebuyRefused, Runs, Done, Running, PcFits, Underway, SameHand, RolloverWaits, ActWaits, RebuyWaits, Settled, Generation
<1>11. CASE Restored
  BY <1>11 DEF Restored, Runs, Done, DoneAndBotStep, Publish, SetTimer, Running, PcFits, Underway, SameHand, RolloverWaits, ActWaits, RebuyWaits, Settled, Generation
<1>12. CASE RestoreFails
  BY <1>12 DEF RestoreFails, Runs, Fault, Done, Running, PcFits, Underway, SameHand, RolloverWaits, ActWaits, RebuyWaits, Settled, Generation
<1>13. CASE BotStep
  BY <1>13 DEF BotStep, Runs, Done, SetTimer, Settled, Running, PcFits, Underway, SameHand, RolloverWaits, ActWaits, RebuyWaits, Generation
<1>14. CASE Begin
  BY <1>14 DEF Begin, Runs, Wait, Done, Running, PcFits, Underway, SameHand, RolloverWaits, ActWaits, RebuyWaits, Settled, Generation
<1>15. CASE LeavesFail
  BY <1>15 DEF LeavesFail, Runs, Fault, RetryLater, SetTimer, Done, Generation, Running, PcFits, Underway, SameHand, RolloverWaits, ActWaits, RebuyWaits, Settled
<1>16. CASE NoLeaves
  BY <1>16 DEF NoLeaves, Runs, Prepare, Done, Wait, Running, PcFits, Underway, SameHand, RolloverWaits, ActWaits, RebuyWaits, Settled, Generation
<1>17. CASE LeavesStored
  BY <1>17 DEF LeavesStored, StoreLeaves, Runs, Wait, Running, PcFits, Underway, SameHand, RolloverWaits, ActWaits, RebuyWaits, Settled, Generation
<1>18. CASE LeavesUnheard
  BY <1>18 DEF LeavesUnheard, StoreLeaves, Runs, Fault, RetryLater, SetTimer, Done, Generation, Running, PcFits, Underway, SameHand, RolloverWaits, ActWaits, RebuyWaits, Settled
<1>19. CASE AlreadyClosed
  BY <1>19 DEF AlreadyClosed, Runs, Wait, Running, PcFits, Underway, SameHand, RolloverWaits, ActWaits, RebuyWaits, Settled, Generation
<1>20. CASE LeavesRestored
  BY <1>20 DEF LeavesRestored, Runs, Publish, SetTimer, Prepare, Done, Wait, Running, PcFits, Underway, SameHand, RolloverWaits, ActWaits, RebuyWaits, Settled, Generation
<1>21. CASE Evicted
  BY <1>21 DEF Evicted, Runs, Done, Running, PcFits, Underway, SameHand, RolloverWaits, ActWaits, RebuyWaits, Settled, Generation
<1>22. CASE LeavesRestoreFails
  BY <1>22 DEF LeavesRestoreFails, Runs, Fault, RetryLater, SetTimer, Done, Generation, Running, PcFits, Underway, SameHand, RolloverWaits, ActWaits, RebuyWaits, Settled
<1>23. CASE Deal
  BY <1>23 DEF Deal, Runs, CanDeal, Dealt, Publish, SetTimer, DoneAndBotStep, Running, PcFits, Underway, SameHand, RolloverWaits, ActWaits, RebuyWaits, Settled, Generation
<1>24. CASE DealUnheard
  BY <1>24 DEF DealUnheard, Runs, CanDeal, Dealt, Fault, Wait, Running, PcFits, Underway, SameHand, RolloverWaits, ActWaits, RebuyWaits, Settled, Generation
<1>25. CASE DealFails
  BY <1>25 DEF DealFails, Runs, Fault, NoFault, Wait, Running, PcFits, Underway, SameHand, RolloverWaits, ActWaits, RebuyWaits, Settled, Generation
<1>26. CASE Recover
  BY <1>26 DEF Recover, Runs, SetTimer, Done, Generation, Running, PcFits, Underway, SameHand, RolloverWaits, ActWaits, RebuyWaits, Settled
<1>27. CASE RecoverFails
  BY <1>27 DEF RecoverFails, Runs, Fault, RetryLater, SetTimer, Done, Generation, Running, PcFits, Underway, SameHand, RolloverWaits, ActWaits, RebuyWaits, Settled
<1>28. CASE Exhausted
  BY <1>28 DEF Exhausted, Runs, CanDeal, Wait, Running, PcFits, Underway, SameHand, RolloverWaits, ActWaits, RebuyWaits, Settled, Generation
<1>29. CASE FallbackRestored
  BY <1>29 DEF FallbackRestored, Runs, SetTimer, Settled, Wait, Done, Running, PcFits, Underway, SameHand, RolloverWaits, ActWaits, RebuyWaits, Generation
<1>30. CASE FallbackDealt
  BY <1>30 DEF FallbackDealt, Runs, CanDeal, Dealt, Wait, Running, PcFits, Underway, SameHand, RolloverWaits, ActWaits, RebuyWaits, Settled, Generation
<1>31. CASE FallbackInstalled
  BY <1>31 DEF FallbackInstalled, Runs, Publish, SetTimer, DoneAndBotStep, Running, PcFits, Underway, SameHand, RolloverWaits, ActWaits, RebuyWaits, Settled, Generation
<1>32. CASE FallbackFails
  BY <1>32 DEF FallbackFails, Runs, Fault, NoFault, Done, Running, PcFits, Underway, SameHand, RolloverWaits, ActWaits, RebuyWaits, Settled, Generation
<1>33. CASE FireTimer
  BY <1>33, FirstStays, QueueTypes DEF FireTimer, Rollovers, PcFits, Underway, SameHand, RolloverWaits, ActWaits, RebuyWaits, Settled, Generation, Running, TypeOK, Timer
<1>34. CASE Load
  BY <1>34 DEF Load, Publish, SetTimer, PcFits, Underway, SameHand, RolloverWaits, ActWaits, RebuyWaits, Settled, Generation, Running
<1>35. CASE Snapshot
  BY <1>35 DEF Snapshot, Publish, SetTimer, PcFits, Underway, SameHand, RolloverWaits, ActWaits, RebuyWaits, Settled, Generation, Running
<1>36. CASE Crash
  BY <1>36 DEF Crash, PcFits, Underway, SameHand, RolloverWaits, ActWaits, RebuyWaits, Settled, Generation, Running
<1>37. CASE ForceClose
  BY <1>37 DEF ForceClose, PcFits, Underway, SameHand, RolloverWaits, ActWaits, RebuyWaits, Settled, Generation, Running, After
<1>38. CASE \E kind \in {"act", "rebuy"} : Ask(kind)
  BY <1>38, FirstStays, QueueTypes DEF Ask, PcFits, Underway, SameHand, RolloverWaits, ActWaits, RebuyWaits, Settled, Generation, Running
<1>39. CASE UNCHANGED vars
  BY <1>39 DEF vars, PcFits, Underway, SameHand, RolloverWaits, ActWaits, RebuyWaits, Settled, Generation, Running
<1> QED
  BY <1>1, <1>2, <1>3, <1>4, <1>5, <1>6, <1>7, <1>8, <1>9, <1>10, <1>11, <1>12, <1>13, <1>14, <1>15, <1>16, <1>17, <1>18, <1>19, <1>20, <1>21, <1>22, <1>23, <1>24, <1>25, <1>26, <1>27, <1>28, <1>29, <1>30, <1>31, <1>32, <1>33, <1>34, <1>35, <1>36, <1>37, <1>38, <1>39 DEF Next, RunCommand

(* A settlement is published with the copy, or clients are told to resync. *)
LEMMA ShownStep ==
  ASSUME TypeOK, SameHand, PcFits, Underway, Shown, [Next]_vars
  PROVE  Shown'
<1>1. CASE BeginAct
  BY <1>1 DEF BeginAct, Runs, Wait, Running, PcFits, Underway, SameHand, Shown, RolloverWaits, ActWaits, RebuyWaits, Settled, Published, After
<1>2. CASE ActApplied
  BY <1>2 DEF ActApplied, Runs, Wait, Running, PcFits, Underway, SameHand, Shown, RolloverWaits, ActWaits, RebuyWaits, Settled, Published, After
<1>3. CASE ActStored
  BY <1>3 DEF ActStored, StoreAct, Runs, Publish, SetTimer, DoneAndBotStep, Running, PcFits, Underway, SameHand, Shown, RolloverWaits, ActWaits, RebuyWaits, Settled, Published, After
<1>4. CASE ActUnheard
  BY <1>4 DEF ActUnheard, StoreAct, Runs, Fault, Wait, Running, PcFits, Underway, SameHand, Shown, RolloverWaits, ActWaits, RebuyWaits, Settled, Published, After
<1>5. CASE ActFails
  BY <1>5 DEF ActFails, Runs, Fault, NoFault, Wait, Running, PcFits, Underway, SameHand, Shown, RolloverWaits, ActWaits, RebuyWaits, Settled, Published, After
<1>6. CASE ActRefused
  BY <1>6 DEF ActRefused, Runs, Done, Running, PcFits, Underway, SameHand, Shown, RolloverWaits, ActWaits, RebuyWaits, Settled, Published, After
<1>7. CASE BeginRebuy
  BY <1>7 DEF BeginRebuy, Runs, Wait, Running, PcFits, Underway, SameHand, Shown, RolloverWaits, ActWaits, RebuyWaits, Settled, Published, After
<1>8. CASE RebuyStored
  BY <1>8 DEF RebuyStored, StoreRebuy, Runs, Wait, Running, PcFits, Underway, SameHand, Shown, RolloverWaits, ActWaits, RebuyWaits, Settled, Published, After
<1>9. CASE RebuyUnheard
  BY <1>9 DEF RebuyUnheard, StoreRebuy, Runs, Fault, Done, Running, PcFits, Underway, SameHand, Shown, RolloverWaits, ActWaits, RebuyWaits, Settled, Published, After
<1>10. CASE RebuyRefused
  BY <1>10 DEF RebuyRefused, Runs, Done, Running, PcFits, Underway, SameHand, Shown, RolloverWaits, ActWaits, RebuyWaits, Settled, Published, After
<1>11. CASE Restored
  BY <1>11 DEF Restored, Runs, Done, DoneAndBotStep, Publish, SetTimer, Running, PcFits, Underway, SameHand, Shown, RolloverWaits, ActWaits, RebuyWaits, Settled, Published, After
<1>12. CASE RestoreFails
  BY <1>12 DEF RestoreFails, Runs, Fault, Done, Running, PcFits, Underway, SameHand, Shown, RolloverWaits, ActWaits, RebuyWaits, Settled, Published, After
<1>13. CASE BotStep
  BY <1>13 DEF BotStep, Runs, Done, SetTimer, Settled, Running, PcFits, Underway, SameHand, Shown, RolloverWaits, ActWaits, RebuyWaits, Published, After
<1>14. CASE Begin
  BY <1>14 DEF Begin, Runs, Wait, Done, Running, PcFits, Underway, SameHand, Shown, RolloverWaits, ActWaits, RebuyWaits, Settled, Published, After
<1>15. CASE LeavesFail
  BY <1>15 DEF LeavesFail, Runs, Fault, RetryLater, SetTimer, Done, Generation, Running, PcFits, Underway, SameHand, Shown, RolloverWaits, ActWaits, RebuyWaits, Settled, Published, After
<1>16. CASE NoLeaves
  BY <1>16 DEF NoLeaves, Runs, Prepare, Done, Wait, Running, PcFits, Underway, SameHand, Shown, RolloverWaits, ActWaits, RebuyWaits, Settled, Published, After
<1>17. CASE LeavesStored
  BY <1>17 DEF LeavesStored, StoreLeaves, Runs, Wait, Running, PcFits, Underway, SameHand, Shown, RolloverWaits, ActWaits, RebuyWaits, Settled, Published, After
<1>18. CASE LeavesUnheard
  BY <1>18 DEF LeavesUnheard, StoreLeaves, Runs, Fault, RetryLater, SetTimer, Done, Generation, Running, PcFits, Underway, SameHand, Shown, RolloverWaits, ActWaits, RebuyWaits, Settled, Published, After
<1>19. CASE AlreadyClosed
  BY <1>19 DEF AlreadyClosed, Runs, Wait, Running, PcFits, Underway, SameHand, Shown, RolloverWaits, ActWaits, RebuyWaits, Settled, Published, After
<1>20. CASE LeavesRestored
  BY <1>20 DEF LeavesRestored, Runs, Publish, SetTimer, Prepare, Done, Wait, Running, PcFits, Underway, SameHand, Shown, RolloverWaits, ActWaits, RebuyWaits, Settled, Published, After
<1>21. CASE Evicted
  BY <1>21 DEF Evicted, Runs, Done, Running, PcFits, Underway, SameHand, Shown, RolloverWaits, ActWaits, RebuyWaits, Settled, Published, After
<1>22. CASE LeavesRestoreFails
  BY <1>22 DEF LeavesRestoreFails, Runs, Fault, RetryLater, SetTimer, Done, Generation, Running, PcFits, Underway, SameHand, Shown, RolloverWaits, ActWaits, RebuyWaits, Settled, Published, After
<1>23. CASE Deal
  BY <1>23 DEF Deal, Runs, CanDeal, Dealt, Publish, SetTimer, DoneAndBotStep, Running, PcFits, Underway, SameHand, Shown, RolloverWaits, ActWaits, RebuyWaits, Settled, Published, After
<1>24. CASE DealUnheard
  BY <1>24 DEF DealUnheard, Runs, CanDeal, Dealt, Fault, Wait, Running, PcFits, Underway, SameHand, Shown, RolloverWaits, ActWaits, RebuyWaits, Settled, Published, After
<1>25. CASE DealFails
  BY <1>25 DEF DealFails, Runs, Fault, NoFault, Wait, Running, PcFits, Underway, SameHand, Shown, RolloverWaits, ActWaits, RebuyWaits, Settled, Published, After
<1>26. CASE Recover
  BY <1>26 DEF Recover, Runs, SetTimer, Done, Generation, Running, PcFits, Underway, SameHand, Shown, RolloverWaits, ActWaits, RebuyWaits, Settled, Published, After
<1>27. CASE RecoverFails
  BY <1>27 DEF RecoverFails, Runs, Fault, RetryLater, SetTimer, Done, Generation, Running, PcFits, Underway, SameHand, Shown, RolloverWaits, ActWaits, RebuyWaits, Settled, Published, After
<1>28. CASE Exhausted
  BY <1>28 DEF Exhausted, Runs, CanDeal, Wait, Running, PcFits, Underway, SameHand, Shown, RolloverWaits, ActWaits, RebuyWaits, Settled, Published, After
<1>29. CASE FallbackRestored
  BY <1>29 DEF FallbackRestored, Runs, SetTimer, Settled, Wait, Done, Running, PcFits, Underway, SameHand, Shown, RolloverWaits, ActWaits, RebuyWaits, Published, After
<1>30. CASE FallbackDealt
  BY <1>30 DEF FallbackDealt, Runs, CanDeal, Dealt, Wait, Running, PcFits, Underway, SameHand, Shown, RolloverWaits, ActWaits, RebuyWaits, Settled, Published, After
<1>31. CASE FallbackInstalled
  BY <1>31 DEF FallbackInstalled, Runs, Publish, SetTimer, DoneAndBotStep, Running, PcFits, Underway, SameHand, Shown, RolloverWaits, ActWaits, RebuyWaits, Settled, Published, After
<1>32. CASE FallbackFails
  BY <1>32 DEF FallbackFails, Runs, Fault, NoFault, Done, Running, PcFits, Underway, SameHand, Shown, RolloverWaits, ActWaits, RebuyWaits, Settled, Published, After
<1>33. CASE FireTimer
  BY <1>33 DEF FireTimer, Rollovers, PcFits, Underway, SameHand, Shown, RolloverWaits, ActWaits, RebuyWaits, Settled, Published, After, TypeOK, Timer
<1>34. CASE Load
  BY <1>34 DEF Load, Publish, SetTimer, PcFits, Underway, SameHand, Shown, RolloverWaits, ActWaits, RebuyWaits, Settled, Published, After
<1>35. CASE Snapshot
  BY <1>35 DEF Snapshot, Publish, SetTimer, PcFits, Underway, SameHand, Shown, RolloverWaits, ActWaits, RebuyWaits, Settled, Published, After
<1>36. CASE Crash
  BY <1>36 DEF Crash, PcFits, Underway, SameHand, Shown, RolloverWaits, ActWaits, RebuyWaits, Settled, Published, After
<1>37. CASE ForceClose
  BY <1>37 DEF ForceClose, PcFits, Underway, SameHand, Shown, RolloverWaits, ActWaits, RebuyWaits, Settled, Published, After
<1>38. CASE \E kind \in {"act", "rebuy"} : Ask(kind)
  BY <1>38 DEF Ask, PcFits, Underway, SameHand, Shown, RolloverWaits, ActWaits, RebuyWaits, Settled, Published, After
<1>39. CASE UNCHANGED vars
  BY <1>39 DEF vars, PcFits, Underway, SameHand, Shown, RolloverWaits, ActWaits, RebuyWaits, Settled, Published, After
<1> QED
  BY <1>1, <1>2, <1>3, <1>4, <1>5, <1>6, <1>7, <1>8, <1>9, <1>10, <1>11, <1>12, <1>13, <1>14, <1>15, <1>16, <1>17, <1>18, <1>19, <1>20, <1>21, <1>22, <1>23, <1>24, <1>25, <1>26, <1>27, <1>28, <1>29, <1>30, <1>31, <1>32, <1>33, <1>34, <1>35, <1>36, <1>37, <1>38, <1>39 DEF Next, RunCommand

(* A timer is set for the copy in place, and replaced with it. *)
LEMMA TimerStep ==
  ASSUME TypeOK, PcFits, Underway, TimerCurrent, [Next]_vars
  PROVE  TimerCurrent'
<1>1. CASE BeginAct
  BY <1>1 DEF BeginAct, Runs, Wait, Running, TimerCurrent, RevealTimer, RetryTimer, Settled, Published, After, Underway
<1>2. CASE ActApplied
  BY <1>2, StoredTypes, NoneAssumption DEF ActApplied, Runs, Wait, Running, TimerCurrent, RevealTimer, RetryTimer, Settled, Published, After, Underway
<1>3. CASE ActStored
  BY <1>3 DEF ActStored, StoreAct, Runs, Publish, SetTimer, DoneAndBotStep, Running, TimerCurrent, RevealTimer, RetryTimer, Settled, Published, After, Underway
<1>4. CASE ActUnheard
  BY <1>4 DEF ActUnheard, StoreAct, Runs, Fault, Wait, Running, TimerCurrent, RevealTimer, RetryTimer, Settled, Published, After, Underway
<1>5. CASE ActFails
  BY <1>5 DEF ActFails, Runs, Fault, NoFault, Wait, Running, TimerCurrent, RevealTimer, RetryTimer, Settled, Published, After, Underway
<1>6. CASE ActRefused
  BY <1>6 DEF ActRefused, Runs, Done, Running, TimerCurrent, RevealTimer, RetryTimer, Settled, Published, After, Underway
<1>7. CASE BeginRebuy
  BY <1>7 DEF BeginRebuy, Runs, Wait, Running, TimerCurrent, RevealTimer, RetryTimer, Settled, Published, After, Underway
<1>8. CASE RebuyStored
  BY <1>8 DEF RebuyStored, StoreRebuy, Runs, Wait, Running, TimerCurrent, RevealTimer, RetryTimer, Settled, Published, After, Underway
<1>9. CASE RebuyUnheard
  BY <1>9 DEF RebuyUnheard, StoreRebuy, Runs, Fault, Done, Running, TimerCurrent, RevealTimer, RetryTimer, Settled, Published, After, Underway
<1>10. CASE RebuyRefused
  BY <1>10 DEF RebuyRefused, Runs, Done, Running, TimerCurrent, RevealTimer, RetryTimer, Settled, Published, After, Underway
<1>11. CASE Restored
  BY <1>11 DEF Restored, Runs, Done, DoneAndBotStep, Publish, SetTimer, Running, TimerCurrent, RevealTimer, RetryTimer, Settled, Published, After, Underway
<1>12. CASE RestoreFails
  BY <1>12 DEF RestoreFails, Runs, Fault, Done, Running, TimerCurrent, RevealTimer, RetryTimer, Settled, Published, After, Underway
<1>13. CASE BotStep
  BY <1>13 DEF BotStep, Runs, Done, SetTimer, Settled, Running, TimerCurrent, RevealTimer, RetryTimer, Published, After, Underway
<1>14. CASE Begin
  BY <1>14 DEF Begin, Runs, Wait, Done, Running, TimerCurrent, RevealTimer, RetryTimer, Settled, Published, After, Underway
<1>15. CASE LeavesFail
  BY <1>15 DEF LeavesFail, Runs, Fault, RetryLater, SetTimer, Done, Generation, Running, TimerCurrent, RevealTimer, RetryTimer, Settled, Published, After, Underway
<1>16. CASE NoLeaves
  BY <1>16 DEF NoLeaves, Runs, Prepare, Done, Wait, Running, TimerCurrent, RevealTimer, RetryTimer, Settled, Published, After, Underway
<1>17. CASE LeavesStored
  BY <1>17 DEF LeavesStored, StoreLeaves, Runs, Wait, Running, TimerCurrent, RevealTimer, RetryTimer, Settled, Published, After, Underway
<1>18. CASE LeavesUnheard
  BY <1>18 DEF LeavesUnheard, StoreLeaves, Runs, Fault, RetryLater, SetTimer, Done, Generation, Running, TimerCurrent, RevealTimer, RetryTimer, Settled, Published, After, Underway
<1>19. CASE AlreadyClosed
  BY <1>19 DEF AlreadyClosed, Runs, Wait, Running, TimerCurrent, RevealTimer, RetryTimer, Settled, Published, After, Underway
<1>20. CASE LeavesRestored
  BY <1>20 DEF LeavesRestored, Runs, Publish, SetTimer, Prepare, Done, Wait, Running, TimerCurrent, RevealTimer, RetryTimer, Settled, Published, After, Underway
<1>21. CASE Evicted
  BY <1>21 DEF Evicted, Runs, Done, Running, TimerCurrent, RevealTimer, RetryTimer, Settled, Published, After, Underway
<1>22. CASE LeavesRestoreFails
  BY <1>22 DEF LeavesRestoreFails, Runs, Fault, RetryLater, SetTimer, Done, Generation, Running, TimerCurrent, RevealTimer, RetryTimer, Settled, Published, After, Underway
<1>23. CASE Deal
  BY <1>23 DEF Deal, Runs, CanDeal, Dealt, Publish, SetTimer, DoneAndBotStep, Running, TimerCurrent, RevealTimer, RetryTimer, Settled, Published, After, Underway
<1>24. CASE DealUnheard
  BY <1>24 DEF DealUnheard, Runs, CanDeal, Dealt, Fault, Wait, Running, TimerCurrent, RevealTimer, RetryTimer, Settled, Published, After, Underway
<1>25. CASE DealFails
  BY <1>25 DEF DealFails, Runs, Fault, NoFault, Wait, Running, TimerCurrent, RevealTimer, RetryTimer, Settled, Published, After, Underway
<1>26. CASE Recover
  BY <1>26 DEF Recover, Runs, SetTimer, Done, Generation, Running, TimerCurrent, RevealTimer, RetryTimer, Settled, Published, After, Underway
<1>27. CASE RecoverFails
  BY <1>27 DEF RecoverFails, Runs, Fault, RetryLater, SetTimer, Done, Generation, Running, TimerCurrent, RevealTimer, RetryTimer, Settled, Published, After, Underway
<1>28. CASE Exhausted
  BY <1>28 DEF Exhausted, Runs, CanDeal, Wait, Running, TimerCurrent, RevealTimer, RetryTimer, Settled, Published, After, Underway
<1>29. CASE FallbackRestored
  BY <1>29 DEF FallbackRestored, Runs, SetTimer, Settled, Wait, Done, Running, TimerCurrent, RevealTimer, RetryTimer, Published, After, Underway
<1>30. CASE FallbackDealt
  BY <1>30 DEF FallbackDealt, Runs, CanDeal, Dealt, Wait, Running, TimerCurrent, RevealTimer, RetryTimer, Settled, Published, After, Underway
<1>31. CASE FallbackInstalled
  BY <1>31 DEF FallbackInstalled, Runs, Publish, SetTimer, DoneAndBotStep, Running, TimerCurrent, RevealTimer, RetryTimer, Settled, Published, After, Underway
<1>32. CASE FallbackFails
  BY <1>32 DEF FallbackFails, Runs, Fault, NoFault, Done, Running, TimerCurrent, RevealTimer, RetryTimer, Settled, Published, After, Underway
<1>33. CASE FireTimer
  BY <1>33 DEF FireTimer, Rollovers, TimerCurrent, RevealTimer, RetryTimer, Settled, Published, After, Underway, TypeOK, Timer
<1>34. CASE Load
  BY <1>34 DEF Load, Publish, SetTimer, TimerCurrent, RevealTimer, RetryTimer, Settled, Published, After, Underway
<1>35. CASE Snapshot
  BY <1>35 DEF Snapshot, Publish, SetTimer, TimerCurrent, RevealTimer, RetryTimer, Settled, Published, After, Underway
<1>36. CASE Crash
  BY <1>36 DEF Crash, TimerCurrent, RevealTimer, RetryTimer, Settled, Published, After, Underway
<1>37. CASE ForceClose
  BY <1>37 DEF ForceClose, TimerCurrent, RevealTimer, RetryTimer, Settled, Published, After, Underway
<1>38. CASE \E kind \in {"act", "rebuy"} : Ask(kind)
  BY <1>38 DEF Ask, TimerCurrent, RevealTimer, RetryTimer, Settled, Published, After, Underway
<1>39. CASE UNCHANGED vars
  BY <1>39 DEF vars, TimerCurrent, RevealTimer, RetryTimer, Settled, Published, After, Underway
<1> QED
  BY <1>1, <1>2, <1>3, <1>4, <1>5, <1>6, <1>7, <1>8, <1>9, <1>10, <1>11, <1>12, <1>13, <1>14, <1>15, <1>16, <1>17, <1>18, <1>19, <1>20, <1>21, <1>22, <1>23, <1>24, <1>25, <1>26, <1>27, <1>28, <1>29, <1>30, <1>31, <1>32, <1>33, <1>34, <1>35, <1>36, <1>37, <1>38, <1>39 DEF Next, RunCommand

----------------------------------------------------------------------------
(***************************************************************************)
(* Nothing is forgotten.                                                   *)
(***************************************************************************)

(* Commands that wait move up when the first one is done.                  *)
LEMMA OthersStay ==
  ASSUME TypeOK, queue # <<>>
  PROVE  /\ 1 \in DOMAIN queue
         /\ \A i \in DOMAIN queue : i # 1 => /\ i - 1 \in DOMAIN Tail(queue)
                                            /\ Tail(queue)[i - 1] = queue[i]
BY TailElements DEF TypeOK

(* A settled table that was published gets a timer. *)
LEMMA SettledTimers ==
  /\ \A c \in Table : Settled(c) => /\ RevealTimer(c, c.hand) # None
                                    /\ RevealTimer(c, Published(c)) # None
  /\ \A c \in Table, g \in Nat, t \in Timer \cup {None} :
       Settled(c) /\ (c.version = g \/ t # None) => RetryTimer(c, g, t) # None
<1>1. \A g \in Nat, retry \in BOOLEAN : [generation |-> g, retry |-> retry] # None
  <2> SUFFICES ASSUME NEW g \in Nat, NEW retry \in BOOLEAN
               PROVE  [generation |-> g, retry |-> retry] # None
    OBVIOUS
  <2>1. [generation |-> g, retry |-> retry] \in Timer
    BY DEF Timer
  <2> QED
    BY <2>1, NoneAssumption
<1>2. \A c \in Table : c.version \in Nat
  BY DEF Table
<1> QED
  BY <1>1, <1>2 DEF RevealTimer, RetryTimer, Published, Settled

(* A command that was not going to look at the table ends, nothing else changes. *)
LEMMA RestStaysWatched ==
  ASSUME TypeOK, Watched, queue # <<>>, Done,
         ~Watcher(queue[1]), pc \notin WatchWaits,
         UNCHANGED <<copy, timer, resync, lost>>
  PROVE  Watched'
<1> SUFFICES ASSUME Settled(copy), copy.players # "too_few",
                    timer = None, ~resync, ~lost
             PROVE  \E i \in DOMAIN queue' : Watcher(queue'[i])
  BY DEF Watched, Watcher, Settled
<1>1. PICK i \in DOMAIN queue : Watcher(queue[i])
  BY DEF Watched
<1>2. i # 1 /\ i - 1 \in DOMAIN queue' /\ queue'[i - 1] = queue[i]
  BY <1>1, OthersStay DEF Done
<1> QED
  BY <1>1, <1>2

(* Every step that takes the last wake-up away from a settled table leaves another. *)
LEMMA WatchedStep ==
  ASSUME IInv, Watched, [Next]_vars
  PROVE  Watched'
<1>1. CASE BeginAct
  BY <1>1 DEF BeginAct, Runs, Wait, Running, IInv, Watched, Watcher, WatchWaits, RolloverWaits, Settled
<1>2. CASE ActApplied
  BY <1>2 DEF ActApplied, Runs, Wait, Running, IInv, Watched, Watcher, WatchWaits, RolloverWaits, Settled, After
<1>3. CASE ActStored
  BY <1>3, SettledTimers, CopyThere DEF ActStored, StoreAct, Runs, Publish, SetTimer, DoneAndBotStep, Running, IInv, Watched, Watcher, WatchWaits, RolloverWaits, Settled, TypeOK
<1>4. CASE ActUnheard
  BY <1>4 DEF ActUnheard, StoreAct, Runs, Fault, Wait, Running, IInv, Watched, Watcher, WatchWaits, RolloverWaits, Settled
<1>5. CASE ActFails
  BY <1>5 DEF ActFails, Runs, Fault, NoFault, Wait, Running, IInv, Watched, Watcher, WatchWaits, RolloverWaits, Settled
<1>6. CASE ActRefused
  BY <1>6, RestStaysWatched DEF ActRefused, Runs, Running, IInv, Watcher, WatchWaits, RolloverWaits
<1>7. CASE BeginRebuy
  BY <1>7 DEF BeginRebuy, Runs, Wait, Running, IInv, Watched, Watcher, WatchWaits, RolloverWaits, Settled
<1>8. CASE RebuyStored
  BY <1>8 DEF RebuyStored, StoreRebuy, Runs, Wait, Running, IInv, Watched, Watcher, WatchWaits, RolloverWaits, Settled
<1>9. CASE RebuyUnheard
  BY <1>9, RestStaysWatched DEF RebuyUnheard, StoreRebuy, Runs, Running, IInv, Watcher, WatchWaits, RolloverWaits
<1>10. CASE RebuyRefused
  BY <1>10, RestStaysWatched DEF RebuyRefused, Runs, Running, IInv, Watcher, WatchWaits, RolloverWaits
<1>11. CASE Restored
  BY <1>11, SettledTimers DEF Restored, Runs, Done, DoneAndBotStep, Publish, SetTimer, Running, IInv, Watched, Watcher, WatchWaits, RolloverWaits, Settled, TypeOK
<1>12. CASE RestoreFails
  BY <1>12 DEF RestoreFails, Runs, Fault, Done, Running, IInv, Watched, Watcher, WatchWaits, RolloverWaits, Settled
<1>13. CASE BotStep
  BY <1>13, SettledTimers DEF BotStep, Runs, Done, SetTimer, Settled, Running, IInv, Watched, Watcher, WatchWaits, RolloverWaits, TypeOK, Shown
<1>14. CASE Begin
  <2>1. CASE Settled(copy) /\ copy.version = Generation
    BY <1>14, <2>1 DEF Begin, Wait, Watched, WatchWaits, RolloverWaits
  <2>2. CASE ~(Settled(copy) /\ copy.version = Generation)
    <3>1. CASE Settled(copy)
      BY <1>14, <2>2, <3>1, RestStaysWatched
        DEF Begin, Runs, Running, Generation, IInv, Watcher, WatchWaits, RolloverWaits
    <3>2. CASE ~Settled(copy)
      BY <1>14, <3>2 DEF Begin, Watched, Settled
    <3> QED BY <3>1, <3>2
  <2> QED BY <2>1, <2>2
<1>15. CASE LeavesFail
  BY <1>15, SettledTimers, QueueTypes DEF LeavesFail, Runs, Fault, RetryLater, SetTimer, Done, Generation, Running, IInv, Watched, Watcher, WatchWaits, RolloverWaits, Settled, TypeOK, Underway
<1>16. CASE NoLeaves
  BY <1>16 DEF NoLeaves, Runs, Prepare, Done, Wait, Running, IInv, Watched, Watcher, WatchWaits, RolloverWaits, Settled
<1>17. CASE LeavesStored
  BY <1>17 DEF LeavesStored, StoreLeaves, Runs, Wait, Running, IInv, Watched, Watcher, WatchWaits, RolloverWaits, Settled
<1>18. CASE LeavesUnheard
  BY <1>18, SettledTimers, QueueTypes DEF LeavesUnheard, StoreLeaves, Runs, Fault, RetryLater, SetTimer, Done, Generation, Running, IInv, Watched, Watcher, WatchWaits, RolloverWaits, Settled, TypeOK, Underway
<1>19. CASE AlreadyClosed
  BY <1>19 DEF AlreadyClosed, Runs, Wait, Running, IInv, Watched, Watcher, WatchWaits, RolloverWaits, Settled
<1>20. CASE LeavesRestored
  BY <1>20, SettledTimers DEF LeavesRestored, Runs, Publish, SetTimer, Prepare, Done, Wait, Running, IInv, Watched, Watcher, WatchWaits, RolloverWaits, Settled, TypeOK
<1>21. CASE Evicted
  BY <1>21 DEF Evicted, Runs, Done, Running, IInv, Watched, Watcher, WatchWaits, RolloverWaits, Settled
<1>22. CASE LeavesRestoreFails
  BY <1>22, SettledTimers, QueueTypes DEF LeavesRestoreFails, Runs, Fault, RetryLater, SetTimer, Done, Generation, Running, IInv, Watched, Watcher, WatchWaits, RolloverWaits, Settled, TypeOK, Underway
<1>23. CASE Deal
  BY <1>23, SettledTimers, CopyThere DEF Deal, Runs, CanDeal, Dealt, Publish, SetTimer, DoneAndBotStep, Running, IInv, Watched, Watcher, WatchWaits, RolloverWaits, Settled, TypeOK
<1>24. CASE DealUnheard
  BY <1>24 DEF DealUnheard, Runs, CanDeal, Dealt, Fault, Wait, Running, IInv, Watched, Watcher, WatchWaits, RolloverWaits, Settled
<1>25. CASE DealFails
  BY <1>25 DEF DealFails, Runs, Fault, NoFault, Wait, Running, IInv, Watched, Watcher, WatchWaits, RolloverWaits, Settled
<1>26. CASE Recover
  BY <1>26, SettledTimers, QueueTypes, TimerTypes DEF Recover, Runs, SetTimer, Done, Generation, Running, IInv, Watched, Watcher, WatchWaits, RolloverWaits, Settled, TypeOK
<1>27. CASE RecoverFails
  BY <1>27 DEF RecoverFails, Runs, Fault, RetryLater, SetTimer, Done, Generation, Running, IInv, Watched, Watcher, WatchWaits, RolloverWaits, Settled
<1>28. CASE Exhausted
  BY <1>28 DEF Exhausted, Runs, CanDeal, Wait, Running, IInv, Watched, Watcher, WatchWaits, RolloverWaits, Settled
<1>29. CASE FallbackRestored
  BY <1>29, SettledTimers DEF FallbackRestored, Runs, SetTimer, Settled, Wait, Done, Running, IInv, Watched, Watcher, WatchWaits, RolloverWaits, TypeOK, Shown, SameHand, Underway
<1>30. CASE FallbackDealt
  BY <1>30 DEF FallbackDealt, Runs, CanDeal, Dealt, Wait, Running, IInv, Watched, Watcher, WatchWaits, RolloverWaits, Settled
<1>31. CASE FallbackInstalled
  BY <1>31, SettledTimers DEF FallbackInstalled, Runs, Publish, SetTimer, DoneAndBotStep, Running, IInv, Watched, Watcher, WatchWaits, RolloverWaits, Settled, TypeOK
<1>32. CASE FallbackFails
  BY <1>32 DEF FallbackFails, Runs, Fault, NoFault, Done, Running, IInv, Watched, Watcher, WatchWaits, RolloverWaits, Settled
<1>33. CASE FireTimer
  <2> SUFFICES ASSUME Settled(copy), copy.players # "too_few", ~resync, pc \notin WatchWaits
               PROVE  lost' \/ \E i \in DOMAIN queue' : Watcher(queue'[i])
    BY <1>33 DEF FireTimer, Watched, Watcher, Settled
  <2>1. timer.generation = copy.version /\ timer \in Timer
    BY <1>33 DEF FireTimer, IInv, TimerCurrent, TypeOK, Settled
  <2>2. CASE Rollovers = {}
    <3>1. RolloverOf(timer.generation) \in Commands /\ queue \in Seq(Commands)
      BY <2>1, QueueTypes DEF IInv, TypeOK, Timer
    <3>2. queue' = Append(queue, RolloverOf(timer.generation))
      BY <1>33, <2>2 DEF FireTimer
    <3>3. \E i \in DOMAIN queue' : queue'[i] = RolloverOf(timer.generation)
      BY <3>1, <3>2, AppendElements
    <3> QED
      BY <2>1, <3>3, <1>33 DEF Watcher, RolloverOf, FireTimer
  <2>3. CASE Rollovers # {} /\ ~lost'
    <3>1. PICK i \in Rollovers : i = 1 \/ queue[i].generation = timer.generation
      BY <1>33, <2>3 DEF FireTimer
    <3>2. i # 1
      BY <1>33, <3>1 DEF FireTimer, Yields, Rollovers, IInv, PcFits, WatchWaits
    <3> QED
      BY <1>33, <2>1, <2>3, <3>1, <3>2 DEF FireTimer, Rollovers, Watcher
  <2> QED
    BY <2>2, <2>3 DEF IInv, TypeOK
<1>34. CASE Load
  BY <1>34, SettledTimers DEF Load, Publish, SetTimer, IInv, Watched, Watcher, WatchWaits, RolloverWaits, Settled, TypeOK
<1>35. CASE Snapshot
  BY <1>35, SettledTimers DEF Snapshot, Publish, SetTimer, IInv, Watched, Watcher, WatchWaits, RolloverWaits, Settled, TypeOK
<1>36. CASE Crash
  BY <1>36 DEF Crash, IInv, Watched, Watcher, WatchWaits, RolloverWaits, Settled
<1>37. CASE ForceClose
  BY <1>37 DEF ForceClose, IInv, Watched, Watcher, WatchWaits, RolloverWaits, Settled, After
<1>38. CASE \E kind \in {"act", "rebuy"} : Ask(kind)
  BY <1>38 DEF Ask, IInv, Watched, Watcher, WatchWaits, RolloverWaits, Settled
<1>39. CASE UNCHANGED vars
  BY <1>39 DEF vars, IInv, Watched, Watcher, WatchWaits, RolloverWaits, Settled
<1> QED
  BY <1>1, <1>2, <1>3, <1>4, <1>5, <1>6, <1>7, <1>8, <1>9, <1>10, <1>11, <1>12, <1>13, <1>14, <1>15, <1>16, <1>17, <1>18, <1>19, <1>20, <1>21, <1>22, <1>23, <1>24, <1>25, <1>26, <1>27, <1>28, <1>29, <1>30, <1>31, <1>32, <1>33, <1>34, <1>35, <1>36, <1>37, <1>38, <1>39 DEF Next, RunCommand
----------------------------------------------------------------------------
(***************************************************************************)
(* Theorems.                                                               *)
(***************************************************************************)

LEMMA InitOK == Init => IInv /\ Watched
<1> SUFFICES ASSUME Init PROVE IInv /\ Watched
  OBVIOUS
<1>1. TypeOK
  <2>1. db \in Table
    BY DEF Init, Table, Phases, Players
  <2>2. <<>> \in Seq(Commands)
    OBVIOUS
  <2> QED
    BY <2>1, <2>2 DEF Init, TypeOK, Waits
<1>2. Named /\ SameHand /\ PcFits /\ Underway /\ Shown /\ TimerCurrent /\ Watched
  BY DEF Init, Named, SameHand, PcFits, Underway, Shown, TimerCurrent, Watched, Settled, RolloverWaits
<1> QED
  BY <1>1, <1>2 DEF IInv

LEMMA IInvStep == IInv /\ [Next]_vars => IInv'
BY TypeStep, HandStep, PcStep, UnderwayStep, ShownStep, TimerStep DEF IInv

LEMMA IInvAlways == Spec => []IInv
<1>1. Init => IInv
  BY InitOK
<1> QED
  BY <1>1, IInvStep, PTL DEF Spec

(* The variables keep their types: in particular a command that writes has *)
(* a copy to write.                                                        *)
THEOREM RolloverTypes == Spec => []TypeOK
<1>1. IInv => TypeOK
  BY DEF IInv
<1> QED
  BY <1>1, IInvAlways, PTL

(* No hand is in the runtime table before the transaction that deals it    *)
(* committed, however many transactions fail or commit unheard.            *)
THEOREM HandsDurable == Spec => []HandIsDurable
<1>1. IInv => HandIsDurable
  BY DEF IInv, SameHand, HandIsDurable, TypeOK, Table
<1> QED
  BY <1>1, IInvAlways, PTL

(* Each hand is dealt once, over the settled hand before it, and after the *)
(* settlement was published or clients were told to resync.                *)
THEOREM DealtOnce == Spec => DealtAfterReveal
<1>1. ASSUME IInv, [Next]_vars, db'.hand # db.hand
      PROVE  /\ Settled(copy) /\ copy.hand = db.hand
             /\ db.phase = "SETTLED" \/ (db.phase = "LIVE" /\ Collided)
             /\ revealed = db.hand \/ resync
  <2>1. CASE NewHand
    <3>1. pc \in {"write", "fallback_write"} /\ CanDeal /\ Settled(copy)
      BY <1>1, <2>1 DEF NewHand, IInv, Underway, RolloverWaits
    <3>2. copy.hand = db.hand
      BY <1>1, <3>1 DEF CanDeal, IInv, SameHand, Settled, TypeOK, Table
    <3>3. db.phase = "SETTLED" \/ (db.phase = "LIVE" /\ Collided)
      BY <1>1, <3>1 DEF CanDeal, IInv, TypeOK, Table, Phases, Collided, Settled
    <3> QED
      BY <1>1, <3>1, <3>2, <3>3 DEF IInv, Shown
  <2>2. CASE Rest \/ CopyRead \/ CopyDropped \/ CopyAhead
    BY <1>1, <2>2 DEF Rest, CopyRead, CopyDropped, CopyAhead
  <2>3. CASE HandKept
    BY <1>1, <2>3 DEF HandKept, After
  <2>4. CASE ActInstalled
    BY <1>1, <2>4 DEF ActInstalled, IInv, Underway
  <2> QED
    BY <1>1, <2>1, <2>2, <2>3, <2>4, Effects DEF IInv
<1>2. IInv /\ [Next]_vars => [db'.hand # db.hand =>
       /\ Settled(copy) /\ copy.hand = db.hand
       /\ db.phase = "SETTLED" \/ (db.phase = "LIVE" /\ Collided)
       /\ revealed = db.hand \/ resync]_vars
  BY <1>1
<1> QED
  BY <1>2, IInvAlways, PTL DEF Spec, DealtAfterReveal

(* Whatever fails, in whatever order commands and timers come, a settled   *)
(* table that can go on has a timer, a command or a resync to come, unless *)
(* a wake-up was lost in one of the two ways FireTimer and FallbackFails   *)
(* record.                                                                 *)
THEOREM AlwaysLookedAfter == Spec => []LookedAfter
<1>1. Init => Watched
  BY InitOK
<1>2. IInv /\ Watched /\ [Next]_vars => Watched'
  BY WatchedStep
<1>3. IInv /\ Watched => LookedAfter
  BY DEF IInv, PcFits, Watched, WatchWaits, RolloverWaits, LookedAfter, Stranded
<1> QED
  BY <1>1, <1>2, <1>3, IInvAlways, PTL DEF Spec
=============================================================================
