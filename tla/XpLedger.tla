------------------------------ MODULE XpLedger ------------------------------
(***************************************************************************)
(* The experience points of the arcade: the counters of the Redis store,   *)
(* the requests that award points and move a guest's points to an account, *)
(* the leaderboards kept beside the counters, an owner's choice to be on   *)
(* them, and the maintenance that repairs them.                            *)
(*                                                                         *)
(* A request is a serverless function: it dies between any two steps, is   *)
(* sent again, overtakes another one and may last into the next day.  What *)
(* one Lua script or one SQL transaction does is one action.  An award has *)
(* one such step and takes the day and the window into it, so requests in  *)
(* progress need no variable: any number of them run at any time.          *)
(*                                                                         *)
(* Abstracted: how many points a window is worth (any number up to         *)
(* DeltaCap), request validation and rate limits (a refused request does   *)
(* nothing), the session state with its combo and its own check for stale  *)
(* windows (a failed read answers as for a new session, so any window may  *)
(* reach the script), boards of past days and weeks and the profile        *)
(* snapshot (nothing here reads them).  Only the order of window ends      *)
(* matters, and that 0 is one.  Nobody gives an account's id as that of a  *)
(* guest (isValidXpAnonId would let him).                                  *)
(* The clock does not turn while a visibility change is sent to Redis, and *)
(* the counters of one owner are read at once by a repair.  An owner sends *)
(* one visibility change at a time.                                        *)
(***************************************************************************)
EXTENDS Integers, FiniteSets, FiniteSetsExt

CONSTANTS
  Users, Guests,      \* accounts, and anonymous ids of browsers
  Sessions,           \* XP session ids of the clients
  Idle,               \* no repair is in progress
  MaxWindow,          \* windows of play per session, by their end: 0..MaxWindow
  MaxDay,             \* days, 1..MaxDay
  DaysPerWeek,
  SessionDays,        \* days the keys of a session are sure to outlive
  DailyCap, SessionCap, DeltaCap, ConversionCap

Ids == Users \cup Guests
Windows == 0..MaxWindow
Days == 1..MaxDay
Periods == {"all", "day", "week"}

ASSUME XpAssumption ==
  /\ IsFiniteSet(Ids) /\ IsFiniteSet(Sessions) /\ Users \cap Guests = {}
  /\ MaxWindow \in Nat /\ MaxDay \in Nat \ {0} /\ DaysPerWeek \in Nat \ {0}
  /\ SessionDays \in Nat \ {0}
  /\ DailyCap \in Nat /\ SessionCap \in Nat /\ DeltaCap \in Nat /\ ConversionCap \in Nat

Repair == [kind: {"fill"}, user: Users, day: Days, score: [Periods -> Nat]]
     \cup [kind: {"prune"}, user: Users, day: Days, period: Periods]

ASSUME IdleAssumption == Idle \notin Repair

VARIABLES
  today,          \* warsawDayKey of the current time
  total,          \* <ns>:total:<id>
  daily,          \* <ns>:daily:<id>:<day>
  session,        \* <ns>:session:<id|session>
  lastSync,       \* <ns>:session:last:<id|session>
  touched,        \* the day the session's two keys were last written, 0 without
  converted,      \* <ns>:migration:user:<user>, 0 when it is not set
  hidden,         \* who has <ns>:leaderboard:v1:hidden:<user>
  board,          \* scores on the current leaderboards, 0 for no member
  visible,        \* user_profiles.leaderboard_visible
  patch,          \* the visibility change of each owner in progress
  repair,         \* the maintenance step in progress
  paid,           \* observed: what was granted for each window
  paidOn,         \* observed: the last day on which something was, or 0
  forgotten,      \* observed: the session counters that have expired
  lost,           \* observed: guests' points above the conversion cap
  behind          \* observed: whom maintenance put on a board with a wrong score

counters == <<total, daily, session, lastSync, touched, paid, paidOn, forgotten>>
vars == <<today, counters, converted, hidden, board, visible, patch, repair, lost,
          behind>>

Nobody == [p \in Periods |-> 0]

Init ==
  /\ today = 1
  /\ total = [i \in Ids |-> 0]
  /\ daily = [i \in Ids |-> [d \in Days |-> 0]]
  /\ session = [i \in Ids |-> [s \in Sessions |-> 0]]
  /\ lastSync = session /\ touched = session /\ forgotten = session
  /\ converted = [u \in Users |-> 0]
  /\ hidden = {} /\ visible = Users
  /\ board = [u \in Users |-> Nobody]
  /\ patch = [u \in Users |-> "none"]
  /\ repair = Idle
  /\ paid = [i \in Ids |-> [s \in Sessions |-> [w \in Windows |-> 0]]]
  /\ paidOn = paid
  /\ lost = 0 /\ behind = {}

----------------------------------------------------------------------------
WeekOf(day) == day \div DaysPerWeek
SameWeek(day) == {d \in Days : WeekOf(d) = WeekOf(day)}

(* getXpLeaderboardWeekDayKeys: the days of the week, up to this one. *)
WeekDays(day) == {d \in SameWeek(day) : d <= day}

(* What the counters say u's scores are on this day. *)
Figures(u, day) ==
  [p \in Periods |-> CASE p = "all" -> total[u]
                       [] p = "day" -> daily[u][day]
                       [] p = "week" -> SumFunctionOnSet(daily[u], WeekDays(day))]

----------------------------------------------------------------------------
(***************************************************************************)
(* Awards (calculate-xp).                                                  *)
(***************************************************************************)

(* The handler takes the time when it starts: its day may be over when the *)
(* script runs.                                                            *)
StartedOn == {d \in Days : d <= today /\ d >= today - 1}

(* Mutant: a window is new when it does not end before the last one. *)
NewOrLast(i, s, w) == lastSync[i][s] = 0 \/ w >= lastSync[i][s]

New(i, s, w) == lastSync[i][s] = 0 \/ w > lastSync[i][s]

(* Mutant: the daily cap is looked at only to refuse. *)
GrantOver(i, s, day, delta) == Min({delta, SessionCap - session[i][s]})

(* What is left of the calculated points under the two caps. *)
Grant(i, s, day, delta) == Min({delta, DailyCap - daily[i][day], SessionCap - session[i][s]})

HasRoom(i, s, day) == daily[i][day] < DailyCap /\ session[i][s] < SessionCap

(* Mutant: the week's board gets what was calculated, not what was granted. *)
WeekByDelta(i, day, grant) ==
  [board[i] EXCEPT !["all"] = total[i] + grant,
                   !["day"] = IF day = today THEN daily[i][day] + grant ELSE @,
                   !["week"] = IF WeekOf(day) = WeekOf(today) THEN @ + DeltaCap ELSE @]

(* The scores after an award: ZADD, ZADD and ZINCRBY, on the boards of its day. *)
Scored(i, day, grant) ==
  [board[i] EXCEPT !["all"] = total[i] + grant,
                   !["day"] = IF day = today THEN daily[i][day] + grant ELSE @,
                   !["week"] = IF WeekOf(day) = WeekOf(today) THEN @ + grant ELSE @]

(* The session has come to w, and its keys live on from today. *)
Reach(i, s, w) ==
  /\ lastSync' = [lastSync EXCEPT ![i][s] = w]
  /\ touched' = [touched EXCEPT ![i][s] = today]

(* XP_ATOMIC_AWARD_SCRIPT with a positive grant.  A stale window or one    *)
(* above a cap writes nothing.                                             *)
Award(i, s, w, day) ==
  /\ day \in StartedOn
  /\ New(i, s, w) /\ HasRoom(i, s, day)
  /\ \E delta \in 1..DeltaCap :
       LET grant == Grant(i, s, day, delta) IN
       /\ total' = [total EXCEPT ![i] = @ + grant]
       /\ daily' = [daily EXCEPT ![i][day] = @ + grant]
       /\ session' = [session EXCEPT ![i][s] = @ + grant]
       /\ paid' = [paid EXCEPT ![i][s][w] = @ + grant]
       /\ paidOn' = [paidOn EXCEPT ![i][s][w] = today]
       /\ board' = IF i \in Users \ hidden THEN [board EXCEPT ![i] = Scored(i, day, grant)]
                   ELSE board
  /\ Reach(i, s, w)
  /\ UNCHANGED <<today, forgotten, converted, hidden, visible, patch, repair, lost, behind>>

(* A window in which nothing was earned only moves the session on. *)
AwardNothing(i, s, w, day) ==
  /\ day \in StartedOn
  /\ w > lastSync[i][s] /\ HasRoom(i, s, day)
  /\ Reach(i, s, w)
  /\ UNCHANGED <<today, total, daily, session, paid, paidOn, forgotten, converted, hidden,
                 board, visible, patch, repair, lost, behind>>

(* The two keys of a session live sessionTtl from when they were written,  *)
(* a week.  They are always written together and expire together.          *)
Expire(i, s) ==
  /\ touched[i][s] > 0 /\ today >= touched[i][s] + SessionDays
  /\ session' = [session EXCEPT ![i][s] = 0]
  /\ lastSync' = [lastSync EXCEPT ![i][s] = 0]
  /\ touched' = [touched EXCEPT ![i][s] = 0]
  /\ forgotten' = [forgotten EXCEPT ![i][s] = @ + session[i][s]]
  /\ UNCHANGED <<today, total, daily, paid, paidOn, converted, hidden, board, visible,
                 patch, repair, lost, behind>>

----------------------------------------------------------------------------
(* Mutant: the guest keeps the points. *)
Kept(g) == total[g]

(* The guest's counter is deleted. *)
Emptied(g) == 0

(* Mutant: the cap is what is moved. *)
MovedAll(g) == ConversionCap

Moved(g) == Min({total[g], ConversionCap})

(* migrateAnonXpToUser, once for an account.  Done for each status request *)
(* and before each award of a user whose browser has an anonymous id; when *)
(* it fails the request goes on.                                           *)
Convert(u, g) ==
  /\ converted[u] = 0
  /\ LET moved == Moved(g) IN
     /\ moved > 0
     /\ total' = [total EXCEPT ![u] = @ + moved, ![g] = Emptied(g)]
     /\ converted' = [converted EXCEPT ![u] = moved]
     /\ lost' = lost + (total[g] - moved)
     /\ board' = IF u \in hidden THEN board
                 ELSE [board EXCEPT ![u]["all"] = total[u] + moved]
  /\ UNCHANGED <<today, daily, session, lastSync, touched, paid, paidOn, forgotten, hidden,
                 visible, patch, repair, behind>>

(* 03:00 in Warsaw: the boards of the new day, and week, are empty. *)
NextDay ==
  /\ today < MaxDay
  /\ today' = today + 1
  /\ board' = [u \in Users |->
       [board[u] EXCEPT !["day"] = 0,
                        !["week"] = IF WeekOf(today + 1) = WeekOf(today) THEN @ ELSE 0]]
  /\ UNCHANGED <<counters, converted, hidden, visible, patch, repair, lost, behind>>

----------------------------------------------------------------------------
(***************************************************************************)
(* An owner leaves the leaderboards or comes back (updateUserProfile): one *)
(* script and one transaction, in the order that keeps a hidden owner off. *)
(***************************************************************************)

(* Mutant: the database first. *)
DatabaseFirst(u) ==
  /\ patch' = [patch EXCEPT ![u] = "hiding"]
  /\ visible' = visible \ {u} /\ UNCHANGED <<hidden, board>>

(* The marker is set and the owner is taken off the current boards. *)
Hide(u) ==
  /\ patch' = [patch EXCEPT ![u] = "hiding"]
  /\ hidden' = hidden \cup {u} /\ board' = [board EXCEPT ![u] = Nobody]
  /\ UNCHANGED visible

OptOut(u) ==
  /\ patch[u] = "none"
  /\ Hide(u)
  /\ UNCHANGED <<today, counters, converted, repair, lost, behind>>

OptOutStored(u) ==
  /\ patch[u] = "hiding"
  /\ visible' = visible \ {u}
  /\ patch' = [patch EXCEPT ![u] = "none"]
  /\ UNCHANGED <<today, counters, converted, hidden, board, repair, lost, behind>>

OptIn(u) ==
  /\ patch[u] = "none"
  /\ visible' = visible \cup {u}
  /\ patch' = [patch EXCEPT ![u] = "showing"]
  /\ UNCHANGED <<today, counters, converted, hidden, board, repair, lost, behind>>

(* The marker is deleted and the boards are set from the counters. *)
OptInSynced(u) ==
  /\ patch[u] = "showing"
  /\ hidden' = hidden \ {u}
  /\ board' = [board EXCEPT ![u] = Figures(u, today)]
  /\ behind' = behind \ {u}
  /\ patch' = [patch EXCEPT ![u] = "none"]
  /\ UNCHANGED <<today, counters, converted, visible, repair, lost>>

PatchFails(u) ==
  /\ patch[u] # "none"
  /\ patch' = [patch EXCEPT ![u] = "none"]
  /\ UNCHANGED <<today, counters, converted, hidden, board, visible, repair, lost,
                 behind>>

----------------------------------------------------------------------------
(***************************************************************************)
(* Maintenance, run by an administrator page by page: backfill writes the  *)
(* counters' figures to the boards, prune takes hidden owners off.         *)
(***************************************************************************)
Track(u, scores) ==
  behind' = IF scores = Figures(u, today) THEN behind \ {u} ELSE behind \cup {u}

FillRead(u) ==
  /\ repair = Idle
  /\ u \in visible
  /\ repair' = [kind |-> "fill", user |-> u, day |-> today, score |-> Figures(u, today)]
  /\ UNCHANGED <<today, counters, converted, hidden, board, visible, patch, lost,
                 behind>>

(* The boards of the day the figures were read on. *)
Current(day) == {p \in Periods : \/ p = "all"
                                 \/ p = "day" /\ day = today
                                 \/ p = "week" /\ WeekOf(day) = WeekOf(today)}

Filled(written) ==
  LET u == repair.user
      scores == [p \in Periods |-> IF p \in written \cap Current(repair.day)
                                   THEN repair.score[p] ELSE board[u][p]]
  IN  /\ board' = [board EXCEPT ![u] = scores]
      /\ Track(u, scores)
      /\ repair' = Idle
      /\ UNCHANGED <<today, counters, converted, hidden, visible, patch, lost>>

Filling == repair # Idle /\ repair.kind = "fill"
FillWrite(u) == Filling /\ repair.user = u /\ Filled(Periods)

(* An error: some of the three scores may have been written. *)
FillFails == Filling /\ \E written \in SUBSET Periods \ {Periods} : Filled(written)

(* Mutant: prune goes by the marker in Redis. *)
Unmarked(u) == u \notin visible \cup hidden

(* readEligibleProfileIds, for a member of a board. *)
NotEligible(u) == u \notin visible

PruneRead(u, p) ==
  /\ repair = Idle
  /\ board[u][p] > 0 /\ NotEligible(u)
  /\ repair' = [kind |-> "prune", user |-> u, day |-> today, period |-> p]
  /\ UNCHANGED <<today, counters, converted, hidden, board, visible, patch, lost,
                 behind>>

Pruning == repair # Idle /\ repair.kind = "prune"
PruneWrite(u, p) ==
  /\ Pruning /\ repair.user = u /\ repair.period = p
  /\ LET scores == [board[u] EXCEPT ![p] = IF p \in Current(repair.day) THEN 0 ELSE @] IN
     /\ board' = [board EXCEPT ![u] = scores]
     /\ Track(u, scores)
  /\ repair' = Idle
  /\ UNCHANGED <<today, counters, converted, hidden, visible, patch, lost>>

PruneFails ==
  /\ Pruning /\ repair' = Idle
  /\ UNCHANGED <<today, counters, converted, hidden, board, visible, patch, lost,
                 behind>>

----------------------------------------------------------------------------
Patch(u) == OptOut(u) \/ OptOutStored(u) \/ OptIn(u) \/ OptInSynced(u) \/ PatchFails(u)
Maintain ==
  \/ \E u \in Users :
       \/ FillRead(u) \/ FillWrite(u)
       \/ \E p \in Periods : PruneRead(u, p) \/ PruneWrite(u, p)
  \/ FillFails \/ PruneFails

Next ==
  \/ \E i \in Ids, s \in Sessions, w \in Windows, d \in Days :
       Award(i, s, w, d) \/ AwardNothing(i, s, w, d)
  \/ \E i \in Ids, s \in Sessions : Expire(i, s)
  \/ \E u \in Users, g \in Guests : Convert(u, g)
  \/ \E u \in Users : Patch(u)
  \/ Maintain \/ NextDay

Spec == Init /\ [][Next]_vars

(* The administrator runs both repairs on every page until nothing is left *)
(* to correct, and again after a failed page.                              *)
Rerun ==
  \A u \in Users :
    /\ SF_vars(FillRead(u)) /\ SF_vars(FillWrite(u))
    /\ SF_vars(\E p \in Periods : PruneRead(u, p))
    /\ SF_vars(\E p \in Periods : PruneWrite(u, p))

FairSpec == Spec /\ Rerun

----------------------------------------------------------------------------
(* The variables keep their types; what was lost is never negative. *)
TypeOK ==
  /\ today \in Days
  /\ total \in [Ids -> Nat] /\ daily \in [Ids -> [Days -> Nat]]
  /\ session \in [Ids -> [Sessions -> Nat]]
  /\ lastSync \in [Ids -> [Sessions -> Windows]]
  /\ touched \in [Ids -> [Sessions -> Days \cup {0}]]
  /\ paid \in [Ids -> [Sessions -> [Windows -> Nat]]]
  /\ paidOn \in [Ids -> [Sessions -> [Windows -> Days \cup {0}]]]
  /\ forgotten \in [Ids -> [Sessions -> Nat]]
  /\ converted \in [Users -> Nat] /\ lost \in Nat
  /\ hidden \subseteq Users /\ visible \subseteq Users /\ behind \subseteq Users
  /\ board \in [Users -> [Periods -> Nat]]
  /\ patch \in [Users -> {"none", "hiding", "showing"}]
  /\ repair \in Repair \cup {Idle}

(* Whatever requests overlap, overtake each other or last into the next    *)
(* day, no day and no session is credited above its cap, a session as long *)
(* as its keys live.                                                       *)
CapsHold ==
  /\ \A i \in Ids, d \in Days : daily[i][d] <= DailyCap
  /\ \A i \in Ids, s \in Sessions : session[i][s] <= SessionCap
  /\ \A u \in Users : converted[u] <= ConversionCap

Total(f) == SumFunction(f)
PaidTo(i) == Total([s \in Sessions |-> Total(paid[i][s])])

(* The counters tell one story: each session, with what expired of it, and *)
(* each account's days add up to what its windows were paid, an account's  *)
(* total is that and what a guest brought, and no conversion makes points  *)
(* or loses any but those above the cap.                                   *)
CountersAgree ==
  /\ \A i \in Ids, s \in Sessions : session[i][s] + forgotten[i][s] = Total(paid[i][s])
  /\ \A i \in Ids : Total(daily[i]) = PaidTo(i)
  /\ \A u \in Users : total[u] = PaidTo(u) + converted[u]
  /\ Total(total) + lost = Total([i \in Ids |-> PaidTo(i)])

(* Nothing is paid for a window that was paid for already, in the days the *)
(* session's keys are sure to live.                                        *)
PaidOnce ==
  \A i \in Ids, s \in Sessions, w \in Windows \ {0} :
    paidOn[i][s][w] > 0 /\ paid'[i][s][w] # paid[i][s][w]
      => today >= paidOn[i][s][w] + SessionDays

(* A retry does not pay a window of play again, for as long as the server  *)
(* can know: however often requests are repeated, overtake each other or   *)
(* last into new days, while session keys expire.  Two windows are outside *)
(* of it, as the code pays them again: one that ends at 0, which leaves    *)
(* lastSync as if there had been none, at every repetition; and one that   *)
(* is repeated when the session's keys are gone, for the handler refuses   *)
(* no window for being old.                                                *)
WindowPaidOnce == [][PaidOnce]_vars

(* The scores on the boards, kept up by increments, by conversions, by     *)
(* opting in again and by the turn of days and weeks, are the counters'    *)
(* figures for everyone Redis shows, unless maintenance wrote what it had  *)
(* read too early.                                                         *)
BoardsMatchLedger ==
  \A u \in Users \ (hidden \cup behind) : board[u] = Figures(u, today)

(* Whom the database hides, Redis hides: between the two stores and after  *)
(* a failure of either, awards put nobody on a board who has opted out.    *)
OptOutIsMarked == Users \ visible \subseteq hidden

(* When owners stop changing their minds, maintenance brings the boards to *)
(* the counters' figures for the visible and takes the others off, and it  *)
(* stays so: whatever page failed half-way, overtook an award or lasted    *)
(* into the next day is repaired by running it again.                      *)
MaintenanceConverges ==
  <>[](\A u \in Users : patch[u] = "none") =>
  <>[](\A u \in Users : board[u] = IF u \in visible THEN Figures(u, today) ELSE Nobody)
=============================================================================
