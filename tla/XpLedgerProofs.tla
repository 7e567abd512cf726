--------------------------- MODULE XpLedgerProofs ---------------------------
(***************************************************************************)
(* Proofs about XpLedger, for any accounts, guests, sessions, windows, days *)
(* and caps:                                                               *)
(*   XpTypeCorrect       TypeOK                                            *)
(*   CapsAlwaysHold      no cap is ever exceeded                           *)
(*   WindowsPaidOnce     a remembered window is never paid again           *)
(*   OptOutAlwaysMarked  whom the database hides, Redis hides              *)
(*   CountersAlwaysAgree the counters add up to what the windows were paid *)
(*   BoardsAlwaysMatch   the boards show the ledger                        *)
(* The last two rest on sums over windows, sessions and days (SumProofs).  *)
(***************************************************************************)
EXTENDS XpLedger, SumProofs

(* The counters are numbers of points. *)
CountersType ==
  /\ today \in Days
  /\ total \in [Ids -> Nat]
  /\ daily \in [Ids -> [Days -> Nat]]
  /\ session \in [Ids -> [Sessions -> Nat]]
  /\ lastSync \in [Ids -> [Sessions -> Nat]]
  /\ touched \in [Ids -> [Sessions -> Nat]]
  /\ paid \in [Ids -> [Sessions -> [Windows -> Nat]]]
  /\ paidOn \in [Ids -> [Sessions -> [Windows -> Nat]]]
  /\ forgotten \in [Ids -> [Sessions -> Nat]]
  /\ converted \in [Users -> Nat]

(* A window paid in the last days is one its session has reached, and the  *)
(* keys of the session were written since.                                 *)
Reached(i, s, w) ==
  paidOn[i][s][w] > 0 => \/ today >= paidOn[i][s][w] + SessionDays
                         \/ w <= lastSync[i][s] /\ paidOn[i][s][w] <= touched[i][s]

PaidIsReached ==
  /\ \A i \in Ids, s \in Sessions : touched[i][s] <= today
  /\ \A i \in Ids, s \in Sessions, w \in Windows \ {0} : Reached(i, s, w)

(* The inductive invariant behind the caps. *)
LedgerInv == CountersType /\ CapsHold /\ PaidIsReached

(* The smallest of three numbers, and of two. *)
LEMMA MinOfThree ==
  ASSUME NEW a \in Nat, NEW b \in Nat, NEW c \in Nat
  PROVE  /\ Min({a, b, c}) \in Nat
         /\ Min({a, b, c}) <= a /\ Min({a, b, c}) <= b /\ Min({a, b, c}) <= c
<1>1. \E x \in {a, b, c} : \A y \in {a, b, c} : x =< y
  <2>1. CASE a <= b /\ a <= c  BY <2>1
  <2>2. CASE b <= a /\ b <= c  BY <2>2
  <2>3. CASE c <= a /\ c <= b  BY <2>3
  <2> QED BY <2>1, <2>2, <2>3
<1> QED BY <1>1 DEF Min

LEMMA MinOfTwo ==
  ASSUME NEW a \in Nat, NEW b \in Nat
  PROVE  Min({a, b}) \in Nat /\ Min({a, b}) <= a /\ Min({a, b}) <= b
<1>1. \E x \in {a, b} : \A y \in {a, b} : x =< y
  <2>1. CASE a <= b  BY <2>1
  <2>2. CASE b <= a  BY <2>2
  <2> QED BY <2>1, <2>2
<1> QED BY <1>1 DEF Min

(* What the script grants is positive and fits under both caps. *)
LEMMA GrantFits ==
  ASSUME LedgerInv, NEW i \in Ids, NEW s \in Sessions, NEW day \in Days,
         HasRoom(i, s, day), NEW delta \in 1..DeltaCap
  PROVE  /\ Grant(i, s, day, delta) \in Nat
         /\ daily[i][day] + Grant(i, s, day, delta) <= DailyCap
         /\ session[i][s] + Grant(i, s, day, delta) <= SessionCap
<1>1. /\ daily[i][day] \in Nat /\ session[i][s] \in Nat
      /\ daily[i][day] < DailyCap /\ session[i][s] < SessionCap
  BY DEF LedgerInv, CountersType, HasRoom
<1>2. DailyCap \in Nat /\ SessionCap \in Nat /\ DeltaCap \in Nat
  BY XpAssumption
<1>3. PICK dayLeft \in Nat : dayLeft = DailyCap - daily[i][day]
  BY <1>1, <1>2
<1>4. PICK sessionLeft \in Nat : sessionLeft = SessionCap - session[i][s]
  BY <1>1, <1>2
<1>5. PICK points \in Nat : points = delta
  BY <1>2
<1>6. Grant(i, s, day, delta) = Min({points, dayLeft, sessionLeft})
  BY <1>3, <1>4, <1>5 DEF Grant
<1>7. /\ Min({points, dayLeft, sessionLeft}) \in Nat
      /\ Min({points, dayLeft, sessionLeft}) <= dayLeft
      /\ Min({points, dayLeft, sessionLeft}) <= sessionLeft
  BY MinOfThree, Zenon
<1> QED BY <1>1, <1>2, <1>3, <1>4, <1>6, <1>7

(* What a conversion moves. *)
LEMMA MovedFits ==
  ASSUME LedgerInv, NEW g \in Guests
  PROVE  Moved(g) \in Nat /\ Moved(g) <= ConversionCap
<1>1. PICK points \in Nat : points = total[g]
  BY DEF LedgerInv, CountersType, Ids
<1>2. PICK cap \in Nat : cap = ConversionCap
  BY XpAssumption
<1>3. Min({points, cap}) \in Nat /\ Min({points, cap}) <= cap
  BY MinOfTwo, Zenon
<1> QED BY <1>1, <1>2, <1>3 DEF Moved

(* Where a window is beyond the last one, or nothing is known of a last    *)
(* one, all those paid in the last days are before it.                     *)
LEMMA NewIsUnpaid ==
  ASSUME LedgerInv, NEW i \in Ids, NEW s \in Sessions, NEW w \in Windows,
         New(i, s, w) \/ w > lastSync[i][s]
  PROVE  \A v \in Windows \ {0} :
           paidOn[i][s][v] > 0 => \/ today >= paidOn[i][s][v] + SessionDays
                                  \/ v < w /\ paidOn[i][s][v] <= today
<1> SUFFICES ASSUME NEW v \in Windows \ {0}, paidOn[i][s][v] > 0,
                    ~(today >= paidOn[i][s][v] + SessionDays)
             PROVE  v < w /\ paidOn[i][s][v] <= today
  OBVIOUS
<1>1. /\ lastSync[i][s] \in Nat /\ touched[i][s] \in Nat /\ paidOn[i][s][v] \in Nat
      /\ today \in Nat /\ v \in Nat \ {0} /\ w \in Nat
  BY XpAssumption DEF LedgerInv, CountersType, Windows, Days
<1>2. v <= lastSync[i][s] /\ paidOn[i][s][v] <= touched[i][s] /\ touched[i][s] <= today
  BY DEF LedgerInv, PaidIsReached, Reached
<1>3. w > lastSync[i][s]
  BY <1>1, <1>2 DEF New
<1> QED BY <1>1, <1>2, <1>3

(* A session that reaches such a window still has reached those before it. *)
LEMMA ReachStep ==
  ASSUME LedgerInv, NEW i \in Ids, NEW s \in Sessions, NEW w \in Windows,
         New(i, s, w) \/ w > lastSync[i][s],
         Reach(i, s, w), today' = today, paidOn' \in [Ids -> [Sessions -> [Windows -> Nat]]],
         \A j \in Ids, t \in Sessions, v \in Windows :
           \/ paidOn'[j][t][v] = paidOn[j][t][v]
           \/ j = i /\ t = s /\ v = w /\ paidOn'[j][t][v] = today
  PROVE  PaidIsReached'
<1>1. /\ lastSync \in [Ids -> [Sessions -> Nat]] /\ touched \in [Ids -> [Sessions -> Nat]]
      /\ paidOn \in [Ids -> [Sessions -> [Windows -> Nat]]]
      /\ PaidIsReached
  BY DEF LedgerInv, CountersType
<1>0. today \in Nat /\ Windows \subseteq Nat
  BY DEF LedgerInv, CountersType, Windows, Days
<1>2. /\ lastSync' = [lastSync EXCEPT ![i][s] = w]
      /\ touched' = [touched EXCEPT ![i][s] = today]
  BY DEF Reach
<1>3. \A j \in Ids, t \in Sessions : touched'[j][t] <= today'
  BY <1>0, <1>1, <1>2 DEF PaidIsReached
<1>4. ASSUME NEW j \in Ids, NEW t \in Sessions, NEW v \in Windows \ {0}
      PROVE  Reached(j, t, v)'
  <2> SUFFICES ASSUME paidOn'[j][t][v] > 0
               PROVE  \/ today >= paidOn'[j][t][v] + SessionDays
                      \/ v <= lastSync'[j][t] /\ paidOn'[j][t][v] <= touched'[j][t]
    BY DEF Reached
  <2>1. CASE j = i /\ t = s /\ v = w /\ paidOn'[j][t][v] = today
    BY <1>0, <1>1, <1>2, <2>1
  <2>2. CASE paidOn'[j][t][v] = paidOn[j][t][v] /\ j = i /\ t = s
    <3>1. \/ today >= paidOn[i][s][v] + SessionDays
          \/ v < w /\ paidOn[i][s][v] <= today
      BY <2>2, NewIsUnpaid
    <3>2. lastSync'[j][t] = w /\ touched'[j][t] = today
      BY <1>1, <1>2, <2>2
    <3> QED BY <1>0, <1>1, <2>2, <3>1, <3>2
  <2>3. CASE paidOn'[j][t][v] = paidOn[j][t][v] /\ ~(j = i /\ t = s)
    <3>1. lastSync'[j][t] = lastSync[j][t] /\ touched'[j][t] = touched[j][t]
      BY <1>1, <1>2, <2>3
    <3>2. Reached(j, t, v)
      BY <1>1 DEF PaidIsReached
    <3> QED BY <2>3, <3>1, <3>2 DEF Reached
  <2> QED BY <2>1, <2>2, <2>3
<1> QED BY <1>3, <1>4 DEF PaidIsReached

(* At first nobody has a point. *)
LEMMA LedgerInit == Init => LedgerInv
<1> SUFFICES ASSUME Init PROVE LedgerInv
  OBVIOUS
<1>1. 1 \in Days /\ DailyCap \in Nat /\ SessionCap \in Nat /\ ConversionCap \in Nat
  BY XpAssumption DEF Days
<1>2. CountersType
  BY <1>1 DEF Init, CountersType
<1>3. CapsHold
  BY <1>1 DEF Init, CapsHold
<1>4. PaidIsReached
  BY DEF Init, PaidIsReached, Reached
<1> QED BY <1>2, <1>3, <1>4 DEF LedgerInv

(***************************************************************************)
(* Awards.  Only they touch what a session has reached and was paid.       *)
(***************************************************************************)
LEMMA AwardStep ==
  ASSUME LedgerInv, NEW i \in Ids, NEW s \in Sessions, NEW w \in Windows, NEW day \in Days,
         Award(i, s, w, day)
  PROVE  LedgerInv'
<1>1. PICK delta \in 1..DeltaCap :
        LET grant == Grant(i, s, day, delta) IN
        /\ total' = [total EXCEPT ![i] = @ + grant]
        /\ daily' = [daily EXCEPT ![i][day] = @ + grant]
        /\ session' = [session EXCEPT ![i][s] = @ + grant]
        /\ paid' = [paid EXCEPT ![i][s][w] = @ + grant]
        /\ paidOn' = [paidOn EXCEPT ![i][s][w] = today]
  BY DEF Award
<1>2. New(i, s, w) /\ HasRoom(i, s, day) /\ Reach(i, s, w)
  BY DEF Award
<1>3. PICK grant \in Nat :
        /\ grant = Grant(i, s, day, delta)
        /\ daily[i][day] + grant <= DailyCap /\ session[i][s] + grant <= SessionCap
  BY <1>2, GrantFits
<1>4. /\ total' = [total EXCEPT ![i] = @ + grant]
      /\ daily' = [daily EXCEPT ![i][day] = @ + grant]
      /\ session' = [session EXCEPT ![i][s] = @ + grant]
      /\ paid' = [paid EXCEPT ![i][s][w] = @ + grant]
      /\ paidOn' = [paidOn EXCEPT ![i][s][w] = today]
      /\ lastSync' = [lastSync EXCEPT ![i][s] = w]
      /\ touched' = [touched EXCEPT ![i][s] = today]
      /\ today' = today /\ converted' = converted /\ forgotten' = forgotten
  BY <1>1, <1>3 DEF Award, Reach
<1>5. CountersType /\ CapsHold /\ Windows \subseteq Nat /\ today \in Nat
  BY DEF LedgerInv, CountersType, Windows, Days
<1>6. CountersType'
  BY <1>4, <1>5 DEF CountersType
<1>7. CapsHold'
  BY <1>3, <1>4, <1>5 DEF CountersType, CapsHold
<1>8. PaidIsReached'
  <2>1. paidOn' \in [Ids -> [Sessions -> [Windows -> Nat]]]
    BY <1>6 DEF CountersType
  <2>2. \A j \in Ids, t \in Sessions, v \in Windows :
          \/ paidOn'[j][t][v] = paidOn[j][t][v]
          \/ j = i /\ t = s /\ v = w /\ paidOn'[j][t][v] = today
    BY <1>4, <1>5 DEF CountersType
  <2> QED BY <1>2, <1>4, <2>1, <2>2, ReachStep
<1> QED BY <1>6, <1>7, <1>8 DEF LedgerInv

(* A window without points is only remembered as reached. *)
LEMMA AwardNothingStep ==
  ASSUME LedgerInv, NEW i \in Ids, NEW s \in Sessions, NEW w \in Windows, NEW day \in Days,
         AwardNothing(i, s, w, day)
  PROVE  LedgerInv'
<1>1. /\ w > lastSync[i][s] /\ Reach(i, s, w)
      /\ UNCHANGED <<today, total, daily, session, paid, paidOn, forgotten, converted>>
  BY DEF AwardNothing
<1>2. CountersType /\ CapsHold /\ Windows \subseteq Nat /\ today \in Nat
  BY DEF LedgerInv, CountersType, Windows, Days
<1>3. CountersType' /\ CapsHold'
  BY <1>1, <1>2 DEF CountersType, CapsHold, Reach
<1>4. PaidIsReached'
  <2>1. /\ paidOn' \in [Ids -> [Sessions -> [Windows -> Nat]]]
        /\ \A j \in Ids, t \in Sessions, v \in Windows : paidOn'[j][t][v] = paidOn[j][t][v]
    BY <1>1, <1>2 DEF CountersType
  <2> QED BY <1>1, <2>1, ReachStep
<1> QED BY <1>3, <1>4 DEF LedgerInv

(* The keys that expire are too old to speak of a window paid lately. *)
LEMMA ExpireStep ==
  ASSUME LedgerInv, NEW i \in Ids, NEW s \in Sessions, Expire(i, s)
  PROVE  LedgerInv'
<1>1. /\ today >= touched[i][s] + SessionDays
      /\ session' = [session EXCEPT ![i][s] = 0]
      /\ lastSync' = [lastSync EXCEPT ![i][s] = 0]
      /\ touched' = [touched EXCEPT ![i][s] = 0]
      /\ forgotten' = [forgotten EXCEPT ![i][s] = @ + session[i][s]]
      /\ UNCHANGED <<today, total, daily, paid, paidOn, converted>>
  BY DEF Expire
<1>2. /\ CountersType /\ CapsHold /\ PaidIsReached
      /\ SessionDays \in Nat /\ SessionCap \in Nat
  BY XpAssumption DEF LedgerInv
<1>0. today \in Nat
  BY <1>2 DEF CountersType, Days
<1>3. CountersType' /\ CapsHold'
  BY <1>1, <1>2 DEF CountersType, CapsHold
<1>4. \A j \in Ids, t \in Sessions : touched'[j][t] <= today'
  BY <1>0, <1>1, <1>2 DEF CountersType, PaidIsReached
<1>5. ASSUME NEW j \in Ids, NEW t \in Sessions, NEW v \in Windows \ {0}
      PROVE  Reached(j, t, v)'
  <2>1. Reached(j, t, v) /\ paidOn[j][t][v] \in Nat /\ touched[j][t] \in Nat
    BY <1>2 DEF PaidIsReached, CountersType
  <2>2. CASE j = i /\ t = s
    BY <1>0, <1>1, <1>2, <2>1, <2>2 DEF CountersType, Reached
  <2>3. CASE ~(j = i /\ t = s)
    <3>1. lastSync'[j][t] = lastSync[j][t] /\ touched'[j][t] = touched[j][t]
      BY <1>1, <1>2, <2>3 DEF CountersType
    <3> QED BY <1>1, <2>1, <3>1 DEF Reached
  <2> QED BY <2>2, <2>3
<1> QED BY <1>3, <1>4, <1>5 DEF LedgerInv, PaidIsReached

(* A conversion adds to the total of an account, and to no capped counter. *)
LEMMA ConvertStep ==
  ASSUME LedgerInv, NEW u \in Users, NEW g \in Guests, Convert(u, g)
  PROVE  LedgerInv' /\ paid' = paid /\ forgotten' = forgotten
<1>1. PICK moved \in Nat : moved = Moved(g) /\ moved <= ConversionCap
  BY MovedFits
<1>2. /\ total' = [total EXCEPT ![u] = @ + moved, ![g] = 0]
      /\ converted' = [converted EXCEPT ![u] = moved]
      /\ UNCHANGED <<today, daily, session, lastSync, touched, paid, paidOn, forgotten>>
  BY <1>1 DEF Convert, Emptied
<1>3. CountersType /\ CapsHold /\ PaidIsReached
  BY DEF LedgerInv
<1>4. CountersType'
  <2>1. total' \in [Ids -> Nat]
    <3>1. total \in [Ids -> Nat] /\ u \in Ids
      BY <1>3 DEF CountersType, Ids
    <3>2. total[u] + moved \in Nat
      BY <3>1
    <3>3. [total EXCEPT ![u] = total[u] + moved] \in [Ids -> Nat]
      BY <3>1, <3>2
    <3>4. total' = [[total EXCEPT ![u] = total[u] + moved] EXCEPT ![g] = 0]
      BY <1>2
    <3> QED BY <3>3, <3>4
  <2>2. converted' \in [Users -> Nat]
    BY <1>2, <1>3 DEF CountersType
  <2> QED BY <2>1, <2>2, <1>2, <1>3 DEF CountersType
<1>5. CapsHold'
  BY <1>1, <1>2, <1>3 DEF CountersType, CapsHold
<1>6. PaidIsReached'
  BY <1>2, <1>3 DEF PaidIsReached, Reached
<1> QED BY <1>2, <1>4, <1>5, <1>6 DEF LedgerInv

(* The other steps leave the counters alone. *)
LEMMA OtherSteps ==
  ASSUME LedgerInv, (\E u \in Users : Patch(u)) \/ Maintain \/ NextDay \/ UNCHANGED vars
  PROVE  LedgerInv' /\ paid' = paid
<1>1. UNCHANGED counters /\ converted' = converted
  <2>1. ASSUME NEW u \in Users, Patch(u) PROVE UNCHANGED counters /\ converted' = converted
    BY <2>1 DEF Patch, OptOut, Hide, OptOutStored, OptIn, OptInSynced, PatchFails
  <2>2. CASE Maintain
    BY <2>2 DEF Maintain, FillRead, FillWrite, FillFails, Filled, PruneRead, PruneWrite, PruneFails
  <2>3. CASE NextDay
    BY <2>3 DEF NextDay
  <2>4. CASE UNCHANGED vars
    BY <2>4 DEF vars
  <2> QED BY <2>1, <2>2, <2>3, <2>4
<1>2. today' \in Days
  <2>1. ASSUME NEW u \in Users, Patch(u) PROVE today' = today
    BY <2>1 DEF Patch, OptOut, OptOutStored, OptIn, OptInSynced, PatchFails
  <2>2. CASE Maintain
    BY <2>2 DEF Maintain, FillRead, FillWrite, FillFails, Filled, PruneRead, PruneWrite,
                PruneFails, LedgerInv, CountersType
  <2>3. CASE NextDay
    BY <2>3, XpAssumption DEF NextDay, LedgerInv, CountersType, Days
  <2>4. CASE UNCHANGED vars
    BY <2>4 DEF vars, LedgerInv, CountersType
  <2> QED BY <2>1, <2>2, <2>3, <2>4 DEF LedgerInv, CountersType
<1>3. CountersType /\ CapsHold /\ PaidIsReached
  BY DEF LedgerInv
<1>4. UNCHANGED <<total, daily, session, lastSync, touched, paid, paidOn, forgotten, converted>>
  BY <1>1 DEF counters
<1>5. CountersType'
  BY <1>2, <1>3, <1>4 DEF CountersType
<1>6. CapsHold'
  BY <1>3, <1>4 DEF CapsHold
<1>7. today \in Nat /\ today' \in Nat /\ today <= today' /\ SessionDays \in Nat
  <2>1. today \in Nat /\ today' \in Nat /\ SessionDays \in Nat
    BY <1>2, <1>3, XpAssumption DEF CountersType, Days
  <2>2. today' = today \/ today' = today + 1
    BY DEF Patch, OptOut, OptOutStored, OptIn, OptInSynced, PatchFails, Maintain, FillRead,
           FillWrite, FillFails, Filled, PruneRead, PruneWrite, PruneFails, NextDay, vars
  <2> QED BY <2>1, <2>2
<1>8. PaidIsReached'
  <2>1. \A i \in Ids, s \in Sessions : touched[i][s] \in Nat
    BY <1>3 DEF CountersType
  <2>2. \A i \in Ids, s \in Sessions : touched'[i][s] <= today'
    BY <1>3, <1>4, <1>7, <2>1 DEF PaidIsReached
  <2>3. ASSUME NEW i \in Ids, NEW s \in Sessions, NEW w \in Windows \ {0}
        PROVE  Reached(i, s, w)'
    <3>1. Reached(i, s, w) /\ paidOn[i][s][w] \in Nat
      BY <1>3 DEF PaidIsReached, CountersType
    <3> QED BY <1>4, <1>7, <3>1 DEF Reached
  <2> QED BY <2>2, <2>3 DEF PaidIsReached
<1> QED BY <1>4, <1>5, <1>6, <1>8 DEF LedgerInv

(* Every step keeps the invariant. *)
LEMMA LedgerStep == LedgerInv /\ [Next]_vars => LedgerInv'
<1> SUFFICES ASSUME LedgerInv, [Next]_vars PROVE LedgerInv'
  OBVIOUS
<1>1. ASSUME NEW i \in Ids, NEW s \in Sessions, NEW w \in Windows, NEW d \in Days,
             Award(i, s, w, d)
      PROVE  LedgerInv'
  BY <1>1, AwardStep
<1>2. ASSUME NEW i \in Ids, NEW s \in Sessions, NEW w \in Windows, NEW d \in Days,
             AwardNothing(i, s, w, d)
      PROVE  LedgerInv'
  BY <1>2, AwardNothingStep
<1>3. ASSUME NEW u \in Users, NEW g \in Guests, Convert(u, g) PROVE LedgerInv'
  BY <1>3, ConvertStep
<1>4. CASE (\E u \in Users : Patch(u)) \/ Maintain \/ NextDay \/ UNCHANGED vars
  BY <1>4, OtherSteps
<1>5. ASSUME NEW i \in Ids, NEW s \in Sessions, Expire(i, s) PROVE LedgerInv'
  BY <1>5, ExpireStep
<1> QED BY <1>1, <1>2, <1>3, <1>4, <1>5 DEF Next

(* No step pays a window that was paid in the last days, but the one at 0. *)
LEMMA PaidStep == LedgerInv /\ [Next]_vars => PaidOnce
<1> SUFFICES ASSUME LedgerInv, [Next]_vars PROVE PaidOnce
  OBVIOUS
<1>0. ASSUME paid' = paid PROVE PaidOnce
  BY <1>0 DEF PaidOnce
<1>1. ASSUME NEW i \in Ids, NEW s \in Sessions, NEW w \in Windows, NEW d \in Days,
             Award(i, s, w, d)
      PROVE  PaidOnce
  <2> SUFFICES ASSUME NEW j \in Ids, NEW t \in Sessions, NEW v \in Windows \ {0},
                      paidOn[j][t][v] > 0, paid'[j][t][v] # paid[j][t][v]
               PROVE  today >= paidOn[j][t][v] + SessionDays
    BY DEF PaidOnce
  <2>1. paid \in [Ids -> [Sessions -> [Windows -> Nat]]]
    BY DEF LedgerInv, CountersType
  <2>2. PICK grant : paid' = [paid EXCEPT ![i][s][w] = @ + grant]
    BY <1>1 DEF Award
  <2>3. j = i /\ t = s /\ v = w
    BY <2>1, <2>2
  <2>4. New(i, s, w)
    BY <1>1 DEF Award
  <2>5. today >= paidOn[i][s][v] + SessionDays \/ v < w
    BY <2>3, <2>4, NewIsUnpaid
  <2> QED BY <2>3, <2>5 DEF Windows
<1>2. ASSUME NEW i \in Ids, NEW s \in Sessions, NEW w \in Windows, NEW d \in Days,
             AwardNothing(i, s, w, d)
      PROVE  paid' = paid
  BY <1>2 DEF AwardNothing
<1>3. ASSUME NEW u \in Users, NEW g \in Guests, Convert(u, g) PROVE paid' = paid
  BY <1>3, ConvertStep
<1>4. CASE (\E u \in Users : Patch(u)) \/ Maintain \/ NextDay \/ UNCHANGED vars
  BY <1>0, <1>4, OtherSteps
<1>5. ASSUME NEW i \in Ids, NEW s \in Sessions, Expire(i, s) PROVE paid' = paid
  BY <1>5 DEF Expire
<1> QED BY <1>0, <1>1, <1>2, <1>3, <1>4, <1>5 DEF Next

(* Daily, session and conversion caps hold whatever requests overlap,      *)
(* overtake each other or last into the next day (XP_ATOMIC_AWARD_SCRIPT,  *)
(* ANON_CONVERSION_SCRIPT).                                                *)
THEOREM CapsAlwaysHold == Spec => []CapsHold
<1>1. LedgerInv => CapsHold
  BY DEF LedgerInv
<1> QED BY LedgerInit, LedgerStep, <1>1, PTL DEF Spec

(* A window that was paid is not paid again, however often its request is  *)
(* repeated (the script's stale check), in all the days the keys of its    *)
(* session are sure to live; a window that ends at 0 is excepted, which    *)
(* the check lets through.                                                 *)
THEOREM WindowsPaidOnce == Spec => WindowPaidOnce
<1>1. LedgerInv /\ [Next]_vars => [PaidOnce]_vars
  BY PaidStep
<1> QED BY LedgerInit, LedgerStep, <1>1, PTL DEF Spec, WindowPaidOnce

----------------------------------------------------------------------------
(***************************************************************************)
(* The marker.  A change in progress says how far it has come.             *)
(***************************************************************************)
MarkInv ==
  /\ visible \subseteq Users /\ patch \in [Users -> {"none", "hiding", "showing"}]
  /\ OptOutIsMarked
  /\ \A u \in Users : /\ patch[u] = "hiding" => u \in hidden
                      /\ patch[u] = "showing" => u \in visible

(* At first nobody is hidden. *)
LEMMA MarkInit == Init => MarkInv
BY DEF Init, MarkInv, OptOutIsMarked

(* Hiding writes the mark in Redis in the step that sets it. *)
LEMMA PatchStep ==
  ASSUME MarkInv, NEW u \in Users, Patch(u)
  PROVE  MarkInv'
<1> USE DEF MarkInv, OptOutIsMarked
<1>1. CASE OptOut(u)  BY <1>1 DEF OptOut, Hide
<1>2. CASE OptOutStored(u)  BY <1>2 DEF OptOutStored
<1>3. CASE OptIn(u)  BY <1>3 DEF OptIn
<1>4. CASE OptInSynced(u)  BY <1>4 DEF OptInSynced
<1>5. CASE PatchFails(u)  BY <1>5 DEF PatchFails
<1> QED BY <1>1, <1>2, <1>3, <1>4, <1>5 DEF Patch

(* Every step keeps the marks. *)
LEMMA MarkStep == MarkInv /\ [Next]_vars => MarkInv'
<1> SUFFICES ASSUME MarkInv, [Next]_vars PROVE MarkInv'
  OBVIOUS
<1>1. ASSUME UNCHANGED <<hidden, visible, patch>> PROVE MarkInv'
  BY <1>1 DEF MarkInv, OptOutIsMarked
<1>2. ASSUME NEW i \in Ids, NEW s \in Sessions, NEW w \in Windows, NEW d \in Days,
             Award(i, s, w, d) \/ AwardNothing(i, s, w, d)
      PROVE  MarkInv'
  BY <1>1, <1>2 DEF Award, AwardNothing
<1>3. ASSUME NEW u \in Users, NEW g \in Guests, Convert(u, g) PROVE MarkInv'
  BY <1>1, <1>3 DEF Convert
<1>4. ASSUME NEW u \in Users, Patch(u) PROVE MarkInv'
  BY <1>4, PatchStep
<1>5. CASE Maintain
  BY <1>1, <1>5 DEF Maintain, FillRead, FillWrite, FillFails, Filled, PruneRead, PruneWrite,
                    PruneFails
<1>6. CASE NextDay
  BY <1>1, <1>6 DEF NextDay
<1>7. CASE UNCHANGED vars
  BY <1>1, <1>7 DEF vars
<1>8. ASSUME NEW i \in Ids, NEW s \in Sessions, Expire(i, s) PROVE MarkInv'
  BY <1>1, <1>8 DEF Expire
<1> QED BY <1>2, <1>3, <1>4, <1>5, <1>6, <1>7, <1>8 DEF Next

(* Whom the database hides, Redis hides, in whatever order the two stores  *)
(* are reached and whichever of them fails (updateUserProfile).            *)
THEOREM OptOutAlwaysMarked == Spec => []OptOutIsMarked
<1>1. MarkInv => OptOutIsMarked
  BY DEF MarkInv
<1> QED BY MarkInit, MarkStep, <1>1, PTL DEF Spec

----------------------------------------------------------------------------
(***************************************************************************)
(* The counters and the boards.                                            *)
(***************************************************************************)

(* What the sessions of i earned, those whose keys expired included. *)
Earned(i) == [s \in Sessions |-> session[i][s] + forgotten[i][s]]

(* CountersAgree, with what the sessions were paid added up in Earned. *)
Books ==
  /\ \A i \in Ids, s \in Sessions : Earned(i)[s] = Total(paid[i][s])
  /\ \A i \in Ids : Total(daily[i]) = Total(Earned(i))
  /\ \A u \in Users : total[u] = Total(Earned(u)) + converted[u]
  /\ Total(total) + lost = Total([i \in Ids |-> Total(Earned(i))])

(* Nothing was granted for a day to come. *)
NothingAhead == \A i \in Ids, d \in Days : d > today => daily[i][d] = 0

(* The inductive invariant behind the counters and the boards. *)
BooksInv == LedgerInv /\ TypeOK /\ Books /\ NothingAhead /\ BoardsMatchLedger

(* Sums of points. *)
LEMMA TotalUpdate ==
  ASSUME NEW S, IsFiniteSet(S), NEW f \in [S -> Nat], NEW x \in S, NEW n \in Nat
  PROVE  /\ Total([f EXCEPT ![x] = n]) = Total(f) - f[x] + n
         /\ Total(f) \in Nat
<1>1. f \in [S -> Int] /\ n \in Int
  OBVIOUS
<1> QED BY <1>1, SumUpdate, SumIsNat DEF Total

(* Points added to one counter are added to the sum. *)
LEMMA TotalGrows ==
  ASSUME NEW S, IsFiniteSet(S), NEW f \in [S -> Nat], NEW x \in S, NEW n \in Nat
  PROVE  Total([f EXCEPT ![x] = f[x] + n]) = Total(f) + n /\ Total(f) \in Nat
<1>1. f[x] + n \in Nat /\ f[x] \in Nat
  OBVIOUS
<1>2. Total([f EXCEPT ![x] = f[x] + n]) = Total(f) - f[x] + (f[x] + n) /\ Total(f) \in Nat
  BY <1>1, TotalUpdate
<1> QED BY <1>1, <1>2

(* There are finitely many days and windows to sum over. *)
LEMMA FinitePeriods == IsFiniteSet(Days) /\ IsFiniteSet(Windows)
BY XpAssumption, FS_Interval DEF Days, Windows

(* The sum on the board of the week. *)
WeekSum(u, day) == SumFunctionOnSet(daily[u], WeekDays(day))

(* The three scores of an account, as points. *)
LEMMA FiguresFacts ==
  ASSUME LedgerInv, NEW u \in Users, NEW day \in Days
  PROVE  /\ Figures(u, day) = [p \in Periods |-> CASE p = "all" -> total[u]
                                                   [] p = "day" -> daily[u][day]
                                                   [] p = "week" -> WeekSum(u, day)]
         /\ Figures(u, day) \in [Periods -> Nat]
<1>1. Figures(u, day) = [p \in Periods |-> CASE p = "all" -> total[u]
                                             [] p = "day" -> daily[u][day]
                                             [] p = "week" -> WeekSum(u, day)]
  BY DEF Figures, WeekSum
<1>2. u \in Ids /\ total[u] \in Nat /\ daily[u] \in [Days -> Nat] /\ daily[u][day] \in Nat
  BY DEF LedgerInv, CountersType, Ids
<1>3. WeekSum(u, day) \in Nat
  <2>1. WeekDays(day) \in SUBSET Days
    BY DEF WeekDays, SameWeek
  <2> HIDE DEF WeekDays
  <2> QED BY <1>2, <2>1, FinitePeriods, SumOnSetIsNat DEF WeekSum
<1> QED BY <1>1, <1>2, <1>3 DEF Periods

(* What was earned are points. *)
LEMMA EarnedType ==
  ASSUME CountersType, NEW i \in Ids
  PROVE  Earned(i) \in [Sessions -> Nat] /\ Total(Earned(i)) \in Nat
<1>1. Earned(i) \in [Sessions -> Nat]
  BY DEF CountersType, Earned
<1> QED BY <1>1, XpAssumption, SumIsNat DEF Total

(* At first every book and board is empty. *)
LEMMA BooksInit == Init => BooksInv
<1> SUFFICES ASSUME Init PROVE BooksInv
  OBVIOUS
<1>1. LedgerInv /\ 1 \in Days
  BY LedgerInit, XpAssumption DEF Days
<1>2. TypeOK
  <2>1. 0 \in Windows /\ CountersType
    BY <1>1, XpAssumption DEF Windows, LedgerInv
  <2>2. /\ lastSync \in [Ids -> [Sessions -> Windows]]
        /\ touched \in [Ids -> [Sessions -> Days \cup {0}]]
        /\ paidOn \in [Ids -> [Sessions -> [Windows -> Days \cup {0}]]]
    BY <2>1 DEF Init
  <2>3. /\ lost \in Nat /\ board \in [Users -> [Periods -> Nat]] /\ hidden \subseteq Users
        /\ visible \subseteq Users /\ behind \subseteq Users /\ repair = Idle
        /\ patch \in [Users -> {"none", "hiding", "showing"}]
    BY DEF Init, Nobody
  <2> QED BY <2>1, <2>2, <2>3 DEF CountersType, TypeOK
<1>3. /\ daily \in [Ids -> [Days -> Nat]] /\ session \in [Ids -> [Sessions -> Nat]]
      /\ total \in [Ids -> Nat]
      /\ paid \in [Ids -> [Sessions -> [Windows -> Nat]]]
  BY <1>2 DEF TypeOK
<1>4. ASSUME NEW S, IsFiniteSet(S), NEW f \in [S -> Nat], \A x \in S : f[x] = 0
      PROVE  Total(f) = 0
  <2>1. f \in [S -> Int]
    OBVIOUS
  <2> QED BY <1>4, <2>1, SumOfZeros DEF Total
<1>5. Books
  <2>1. \A i \in Ids, s \in Sessions : Earned(i)[s] = 0 /\ Total(paid[i][s]) = 0
    <3>1. \A i \in Ids, s \in Sessions : Earned(i)[s] = 0
      BY DEF Init, Earned
    <3>2. \A i \in Ids, s \in Sessions : Total(paid[i][s]) = 0
      BY <1>3, <1>4, FinitePeriods DEF Init
    <3> QED BY <3>1, <3>2
  <2>2. \A i \in Ids : Total(daily[i]) = 0 /\ Total(Earned(i)) = 0
    <3> TAKE i \in Ids
    <3>1. Total(daily[i]) = 0
      BY <1>3, <1>4, FinitePeriods DEF Init
    <3>2. Earned(i) \in [Sessions -> Nat] /\ \A s \in Sessions : Earned(i)[s] = 0
      BY <1>3 DEF Init, Earned
    <3>3. Total(Earned(i)) = 0
      BY <1>4, <3>2, XpAssumption
    <3> QED BY <3>1, <3>3
  <2>3. Total(total) = 0
    BY <1>3, <1>4, XpAssumption DEF Init
  <2>4. Total([i \in Ids |-> Total(Earned(i))]) = 0
    <3> DEFINE sums == [i \in Ids |-> Total(Earned(i))]
    <3>1. sums \in [Ids -> Nat] /\ \A i \in Ids : sums[i] = 0
      BY <2>2
    <3> HIDE DEF sums
    <3>2. Total(sums) = 0
      BY <1>4, <3>1, XpAssumption
    <3> QED BY <3>2 DEF sums
  <2>5. /\ \A u \in Users : total[u] = 0 /\ converted[u] = 0 /\ u \in Ids
        /\ lost = 0
    BY DEF Init, Ids
  <2> QED BY <2>1, <2>2, <2>3, <2>4, <2>5 DEF Books
<1>6. NothingAhead
  BY DEF Init, NothingAhead
<1>7. BoardsMatchLedger
  <2> SUFFICES ASSUME NEW u \in Users PROVE board[u] = Figures(u, today)
    BY DEF BoardsMatchLedger
  <2>1. today = 1 /\ u \in Ids /\ daily[u] = [d \in Days |-> 0] /\ total[u] = 0
        /\ board[u] = [p \in Periods |-> 0]
    BY DEF Init, Ids, Nobody
  <2>2. WeekSum(u, 1) = 0
    <3>1. WeekDays(1) \in SUBSET Days
      BY DEF WeekDays, SameWeek
    <3> DEFINE zeros == [d \in Days |-> 0]
               T == WeekDays(1)
    <3>2. zeros \in [Days -> Int] /\ \A d \in T : zeros[d] = 0
      BY <3>1
    <3>3. SumFunctionOnSet(zeros, T) = 0
      BY <3>1, <3>2, FinitePeriods, SumOnSetOfZeros
    <3> QED BY <2>1, <3>3 DEF WeekSum
  <2>3. Figures(u, 1) = [p \in Periods |-> CASE p = "all" -> total[u]
                                             [] p = "day" -> daily[u][1]
                                             [] p = "week" -> WeekSum(u, 1)]
    BY <1>1, FiguresFacts
  <2>4. \A p \in Periods : Figures(u, 1)[p] = 0
    BY <1>1, <2>1, <2>2, <2>3 DEF Periods
  <2> QED BY <2>1, <2>3, <2>4
<1> QED BY <1>1, <1>2, <1>5, <1>6, <1>7 DEF BooksInv

(* Who is not touched keeps the figures. *)
LEMMA SameFigures ==
  ASSUME LedgerInv, LedgerInv', NEW u \in Users, today' = today,
         total'[u] = total[u], daily'[u] = daily[u]
  PROVE  Figures(u, today)' = Figures(u, today)
<1>1. today \in Days
  BY DEF LedgerInv, CountersType
<1> QED BY DEF Figures

(* An award goes to the window, the session, the day and the total alike,  *)
(* and to the boards of periods that are not over.                         *)
LEMMA AwardBooks ==
  ASSUME BooksInv, NEW i \in Ids, NEW s \in Sessions, NEW w \in Windows, NEW day \in Days,
         Award(i, s, w, day)
  PROVE  BooksInv'
<1> USE DEF BooksInv
<1>1. LedgerInv'
  BY AwardStep
<1>2. HasRoom(i, s, day) /\ day <= today
  BY DEF Award, StartedOn
<1>3. PICK delta \in 1..DeltaCap :
        LET grant == Grant(i, s, day, delta) IN
        /\ total' = [total EXCEPT ![i] = @ + grant]
        /\ daily' = [daily EXCEPT ![i][day] = @ + grant]
        /\ session' = [session EXCEPT ![i][s] = @ + grant]
        /\ paid' = [paid EXCEPT ![i][s][w] = @ + grant]
        /\ board' = IF i \in Users \ hidden THEN [board EXCEPT ![i] = Scored(i, day, grant)]
                    ELSE board
  BY DEF Award
<1>4. PICK grant \in Nat : grant = Grant(i, s, day, delta)
  BY <1>2, GrantFits
<1>5. /\ total \in [Ids -> Nat] /\ daily \in [Ids -> [Days -> Nat]]
      /\ session \in [Ids -> [Sessions -> Nat]] /\ forgotten \in [Ids -> [Sessions -> Nat]]
      /\ paid \in [Ids -> [Sessions -> [Windows -> Nat]]]
      /\ board \in [Users -> [Periods -> Nat]] /\ today \in Days
      /\ IsFiniteSet(Ids) /\ IsFiniteSet(Sessions) /\ IsFiniteSet(Days) /\ IsFiniteSet(Windows)
  BY FinitePeriods, XpAssumption DEF TypeOK
<1>6. /\ total' = [total EXCEPT ![i] = total[i] + grant]
      /\ daily' = [daily EXCEPT ![i] = [daily[i] EXCEPT ![day] = daily[i][day] + grant]]
      /\ session' = [session EXCEPT ![i] = [session[i] EXCEPT ![s] = session[i][s] + grant]]
      /\ paid' = [paid EXCEPT ![i] = [paid[i] EXCEPT ![s] =
                                       [paid[i][s] EXCEPT ![w] = paid[i][s][w] + grant]]]
      /\ board' = IF i \in Users \ hidden THEN [board EXCEPT ![i] = Scored(i, day, grant)]
                  ELSE board
  BY <1>3, <1>4, <1>5
<1>7. /\ UNCHANGED <<today, forgotten, converted, hidden, visible, patch, repair, lost, behind>>
      /\ lastSync' = [lastSync EXCEPT ![i][s] = w]
      /\ touched' = [touched EXCEPT ![i][s] = today]
      /\ paidOn' = [paidOn EXCEPT ![i][s][w] = today]
  BY DEF Award, Reach
<1>8. TypeOK'
  <2>1. i \in Users => Scored(i, day, grant) \in [Periods -> Nat]
    <3> SUFFICES ASSUME i \in Users PROVE Scored(i, day, grant) \in [Periods -> Nat]
      OBVIOUS
    <3>1. board[i] \in [Periods -> Nat] /\ total[i] + grant \in Nat /\ daily[i][day] + grant \in Nat
          /\ board[i]["week"] + grant \in Nat
      BY <1>5 DEF Periods
    <3> QED BY <3>1 DEF Scored, Periods
  <2>2. board' \in [Users -> [Periods -> Nat]]
    BY <1>5, <1>6, <2>1
  <2>3. /\ lastSync' \in [Ids -> [Sessions -> Windows]]
        /\ touched' \in [Ids -> [Sessions -> Days \cup {0}]]
        /\ paidOn' \in [Ids -> [Sessions -> [Windows -> Days \cup {0}]]]
    BY <1>7 DEF TypeOK
  <2>4. /\ total' \in [Ids -> Nat] /\ daily' \in [Ids -> [Days -> Nat]]
        /\ session' \in [Ids -> [Sessions -> Nat]]
        /\ paid' \in [Ids -> [Sessions -> [Windows -> Nat]]]
    BY <1>1 DEF LedgerInv, CountersType
  <2> QED BY <1>7, <2>2, <2>3, <2>4 DEF TypeOK
<1>9. Books'
  <2>1. /\ Earned(i)' = [Earned(i) EXCEPT ![s] = Earned(i)[s] + grant]
        /\ \A j \in Ids : j # i => Earned(j)' = Earned(j)
    <3>1. forgotten' = forgotten /\ \A j \in Ids : j # i => session'[j] = session[j]
      BY <1>5, <1>6, <1>7
    <3>2. session'[i] = [session[i] EXCEPT ![s] = session[i][s] + grant]
      BY <1>5, <1>6
    <3>3. session[i] \in [Sessions -> Nat] /\ forgotten[i] \in [Sessions -> Nat]
      BY <1>5
    <3>4. Earned(i)' = [t \in Sessions |-> session'[i][t] + forgotten[i][t]]
      BY <3>1 DEF Earned
    <3>5. \A t \in Sessions : session'[i][t] + forgotten[i][t] =
            IF t = s THEN session[i][s] + forgotten[i][s] + grant ELSE session[i][t] + forgotten[i][t]
      BY <3>2, <3>3
    <3>6. Earned(i)' = [Earned(i) EXCEPT ![s] = Earned(i)[s] + grant]
      BY <3>4, <3>5 DEF Earned
    <3> QED BY <3>1, <3>6 DEF Earned
  <2>2. \A j \in Ids, t \in Sessions : Earned(j)'[t] = Total(paid'[j][t])
    <3> SUFFICES ASSUME NEW j \in Ids, NEW t \in Sessions PROVE Earned(j)'[t] = Total(paid'[j][t])
      OBVIOUS
    <3>0. Earned(i) \in [Sessions -> Nat]
      BY EarnedType DEF LedgerInv
    <3>1. CASE j = i /\ t = s
      <4>1. paid'[j][t] = [paid[i][s] EXCEPT ![w] = paid[i][s][w] + grant] /\ paid[i][s] \in [Windows -> Nat]
        BY <1>5, <1>6, <3>1
      <4>2. Total(paid'[j][t]) = Total(paid[i][s]) + grant
        BY <4>1, FinitePeriods, TotalGrows
      <4>3. Earned(j)'[t] = Earned(i)[s] + grant
        BY <2>1, <3>0, <3>1
      <4> QED BY <4>2, <4>3 DEF Books
    <3>2. CASE ~(j = i /\ t = s)
      <4>1. paid'[j][t] = paid[j][t] /\ Earned(j)'[t] = Earned(j)[t]
        BY <1>5, <1>6, <2>1, <3>0, <3>2
      <4> QED BY <4>1 DEF Books
    <3> QED BY <3>1, <3>2
  <2>3. /\ Total(Earned(i)') = Total(Earned(i)) + grant
        /\ \A j \in Ids : j # i => Earned(j)' = Earned(j) /\ daily'[j] = daily[j] /\ total'[j] = total[j]
        /\ Total(daily'[i]) = Total(daily[i]) + grant
        /\ total'[i] = total[i] + grant
        /\ Total(total') = Total(total) + grant
    <3>1. Earned(i) \in [Sessions -> Nat] /\ daily[i] \in [Days -> Nat]
      BY <1>5, EarnedType DEF LedgerInv
    <3>2. /\ Earned(i)' = [Earned(i) EXCEPT ![s] = Earned(i)[s] + grant]
          /\ daily'[i] = [daily[i] EXCEPT ![day] = daily[i][day] + grant]
          /\ total'[i] = total[i] + grant
          /\ \A j \in Ids : j # i => Earned(j)' = Earned(j) /\ daily'[j] = daily[j] /\ total'[j] = total[j]
      BY <1>5, <1>6, <2>1
    <3>3. Total(Earned(i)') = Total(Earned(i)) + grant
      <4> DEFINE before == Earned(i)
      <4>1. /\ before \in [Sessions -> Nat] /\ IsFiniteSet(Sessions)
            /\ s \in Sessions /\ grant \in Nat
        BY <3>1, XpAssumption
      <4> HIDE DEF before, BooksInv
      <4>2. Total([before EXCEPT ![s] = before[s] + grant]) = Total(before) + grant
        BY <4>1, TotalGrows, Zenon
      <4> QED BY <3>2, <4>2 DEF before
    <3>4. Total(daily'[i]) = Total(daily[i]) + grant
      BY <3>1, <3>2, FinitePeriods, TotalGrows
    <3>5. Total(total') = Total(total) + grant
      <4>1. total \in [Ids -> Nat] /\ total' = [total EXCEPT ![i] = total[i] + grant]
        BY <1>5, <1>6
      <4>2. IsFiniteSet(Ids)
        BY XpAssumption
      <4> HIDE DEF BooksInv
      <4> QED BY <4>1, <4>2, TotalGrows
    <3> QED BY <3>2, <3>3, <3>4, <3>5
  <2>4. \A j \in Ids : Total(Earned(j)) \in Nat
    BY EarnedType DEF LedgerInv
  <2>5. \A j \in Ids : Total(daily'[j]) = Total(Earned(j)')
    BY <2>3 DEF Books
  <2>6. \A u \in Users : total'[u] = Total(Earned(u)') + converted'[u]
    <3> TAKE u \in Users
    <3>1. u \in Ids /\ total[u] = Total(Earned(u)) + converted[u] /\ converted[u] \in Nat
      BY DEF Ids, Books, TypeOK
    <3>2. Total(Earned(u)) \in Nat
      BY <2>4, <3>1
    <3> QED BY <1>7, <2>3, <3>1, <3>2
  <2>7. Total(total') + lost' = Total([j \in Ids |-> Total(Earned(j)')])
    <3> DEFINE sums == [j \in Ids |-> Total(Earned(j))]
               sums1 == [j \in Ids |-> Total(Earned(j)')]
    <3>1. sums \in [Ids -> Nat] /\ sums[i] = Total(Earned(i))
      BY <2>4
    <3>2. sums1 = [sums EXCEPT ![i] = sums[i] + grant]
      BY <2>3, <3>1
    <3>3. Total(total) + lost = Total(sums) /\ Total(total) \in Nat /\ lost \in Nat
      BY <1>5, SumIsNat DEF Books, TypeOK, Total
    <3> HIDE DEF sums, sums1
    <3>4. Total(sums1) = Total(sums) + grant
      <4>1. IsFiniteSet(Ids)
        BY XpAssumption
      <4> HIDE DEF BooksInv
      <4>2. sums \in [Ids -> Nat]
        BY <3>1
      <4> QED BY <3>2, <4>1, <4>2, TotalGrows
    <3>5. Total(total') + lost' = Total(sums1)
      BY <1>7, <2>3, <3>3, <3>4
    <3> QED BY <3>5 DEF sums1
  <2> QED BY <2>2, <2>5, <2>6, <2>7 DEF Books
<1>10. NothingAhead'
  <2> SUFFICES ASSUME NEW j \in Ids, NEW d \in Days, d > today PROVE daily'[j][d] = 0
    BY <1>7 DEF NothingAhead
  <2>1. d # day
    BY <1>2, <1>5 DEF Days
  <2>2. daily'[j][d] = daily[j][d]
    BY <1>5, <1>6, <2>1
  <2> QED BY <2>2 DEF NothingAhead
<1>11. BoardsMatchLedger'
  <2> SUFFICES ASSUME NEW u \in Users \ (hidden \cup behind)
               PROVE  board'[u] = Figures(u, today)'
    BY <1>7 DEF BoardsMatchLedger
  <2>0. u \in Ids /\ board[u] = Figures(u, today)
    BY DEF Ids, BoardsMatchLedger
  <2>1. CASE u # i
    <3>1. total'[u] = total[u] /\ daily'[u] = daily[u] /\ board'[u] = board[u]
      BY <1>5, <1>6, <2>0, <2>1
    <3> QED BY <1>1, <1>7, <2>0, <3>1, SameFigures
  <2>2. CASE u = i
    <3>1. board'[u] = Scored(u, day, grant)
      BY <1>5, <1>6, <2>2
    <3>2. /\ Figures(u, today) = [p \in Periods |-> CASE p = "all" -> total[u]
                                             [] p = "day" -> daily[u][today]
                                             [] p = "week" -> WeekSum(u, today)]
          /\ Figures(u, today) \in [Periods -> Nat]
      BY <1>5, FiguresFacts
    <3>3. Figures(u, today)' = [p \in Periods |-> CASE p = "all" -> total'[u]
                                             [] p = "day" -> daily'[u][today]
                                             [] p = "week" -> SumFunctionOnSet(daily'[u], WeekDays(today))]
      BY <1>7 DEF Figures
    <3>4. total'[u] = total[u] + grant
      BY <1>5, <1>6, <2>2
    <3>5. daily'[u][today] = IF day = today THEN daily[u][day] + grant ELSE daily[u][today]
      BY <1>5, <1>6, <2>2
    <3>6. SumFunctionOnSet(daily'[u], WeekDays(today)) =
            WeekSum(u, today) + IF WeekOf(day) = WeekOf(today) THEN grant ELSE 0
      <4>1. daily'[u] = [daily[u] EXCEPT ![day] = daily[u][day] + grant]
        BY <1>5, <1>6, <2>2
      <4>2. /\ daily[u] \in [Days -> Int] /\ daily[u][day] \in Int
            /\ daily[u][day] + grant \in Int
        BY <1>5, <2>0
      <4>3. WeekDays(today) \in SUBSET Days
            /\ (day \in WeekDays(today) <=> WeekOf(day) = WeekOf(today))
        BY <1>2 DEF WeekDays, SameWeek
      <4> DEFINE T == WeekDays(today)
      <4> HIDE DEF T
      <4>4. /\ day \in T => SumFunctionOnSet(daily'[u], T) =
                              SumFunctionOnSet(daily[u], T) - daily[u][day] + (daily[u][day] + grant)
            /\ day \notin T => SumFunctionOnSet(daily'[u], T) = SumFunctionOnSet(daily[u], T)
            /\ SumFunctionOnSet(daily[u], T) \in Int
        <5>1. T \in SUBSET Days
          BY <4>3 DEF T
        <5>2. IsFiniteSet(Days)
          BY FinitePeriods
        <5>3. SumFunctionOnSet(daily[u], T) \in Int
          BY <4>2, <5>1, <5>2, SumOnSetRule
        <5> DEFINE n == daily[u][day] + grant
        <5>4. n \in Int
          BY <4>2
        <5> HIDE DEF n, BooksInv
        <5>5. /\ day \in T => SumFunctionOnSet([daily[u] EXCEPT ![day] = n], T) =
                                 SumFunctionOnSet(daily[u], T) - daily[u][day] + n
              /\ day \notin T => SumFunctionOnSet([daily[u] EXCEPT ![day] = n], T) =
                                    SumFunctionOnSet(daily[u], T)
          BY <4>2, <5>1, <5>2, <5>4, SumOnSetUpdate
        <5> QED BY <4>1, <5>3, <5>5 DEF n
      <4>5. SumFunctionOnSet(daily[u], T) - daily[u][day] + (daily[u][day] + grant)
              = SumFunctionOnSet(daily[u], T) + grant
        BY <4>2, <4>4
      <4> QED BY <4>3, <4>4, <4>5 DEF WeekSum, T
    <3>7. Scored(u, day, grant) =
            [p \in Periods |-> CASE p = "all" -> total[u] + grant
                [] p = "day" -> IF day = today THEN daily[u][day] + grant ELSE board[u]["day"]
                [] p = "week" -> IF WeekOf(day) = WeekOf(today) THEN board[u]["week"] + grant ELSE board[u]["week"]]
      <4>1. board[u] \in [Periods -> Nat]
        BY <2>0, <3>2
      <4> QED BY <4>1 DEF Scored, Periods
    <3>8. board[u]["day"] = daily[u][today] /\ board[u]["week"] = WeekSum(u, today) /\ WeekSum(u, today) \in Nat
      BY <2>0, <3>2 DEF Periods
    <3> QED BY <3>1, <3>3, <3>4, <3>5, <3>6, <3>7, <3>8
  <2> QED BY <2>1, <2>2
<1> QED BY <1>1, <1>8, <1>9, <1>10, <1>11

(* The steps that leave the counters alone leave the books alone. *)
LEMMA BooksKept ==
  ASSUME BooksInv, LedgerInv',
         UNCHANGED <<today, total, daily, session, paid, forgotten, converted, lost>>
  PROVE  /\ Books' /\ NothingAhead'
         /\ \A u \in Users : Figures(u, today)' = Figures(u, today)
<1>1. Books' /\ NothingAhead'
  BY DEF BooksInv, Books, Earned, NothingAhead
<1>2. LedgerInv
  BY DEF BooksInv
<1> QED BY <1>1, <1>2, SameFigures

(* A window without points leaves the books alone. *)
LEMMA AwardNothingBooks ==
  ASSUME BooksInv, NEW i \in Ids, NEW s \in Sessions, NEW w \in Windows, NEW day \in Days,
         AwardNothing(i, s, w, day)
  PROVE  BooksInv'
<1>1. LedgerInv'
  BY AwardNothingStep DEF BooksInv
<1>2. /\ lastSync' = [lastSync EXCEPT ![i][s] = w]
      /\ touched' = [touched EXCEPT ![i][s] = today]
      /\ UNCHANGED <<today, total, daily, session, paid, paidOn, forgotten, converted, hidden,
                     board, visible, patch, repair, lost, behind>>
  BY DEF AwardNothing, Reach
<1>3. TypeOK'
  BY <1>2 DEF BooksInv, TypeOK
<1>4. /\ Books' /\ NothingAhead'
      /\ \A u \in Users : Figures(u, today)' = Figures(u, today)
  BY <1>1, <1>2, BooksKept
<1>5. BoardsMatchLedger'
  BY <1>2, <1>4 DEF BooksInv, BoardsMatchLedger
<1> QED BY <1>1, <1>3, <1>4, <1>5 DEF BooksInv

(* What expires of a session was earned all the same. *)
LEMMA ExpireBooks ==
  ASSUME BooksInv, NEW i \in Ids, NEW s \in Sessions, Expire(i, s)
  PROVE  BooksInv'
<1> USE DEF BooksInv
<1>1. LedgerInv'
  BY ExpireStep
<1>2. /\ session' = [session EXCEPT ![i][s] = 0]
      /\ lastSync' = [lastSync EXCEPT ![i][s] = 0]
      /\ touched' = [touched EXCEPT ![i][s] = 0]
      /\ forgotten' = [forgotten EXCEPT ![i][s] = @ + session[i][s]]
      /\ UNCHANGED <<today, total, daily, paid, paidOn, converted, hidden, board, visible,
                     patch, repair, lost, behind>>
  BY DEF Expire
<1>3. 0 \in Windows
  BY XpAssumption DEF Windows
<1>4. TypeOK'
  <2>1. /\ session' \in [Ids -> [Sessions -> Nat]] /\ forgotten' \in [Ids -> [Sessions -> Nat]]
    BY <1>1 DEF LedgerInv, CountersType
  <2> QED BY <1>2, <1>3, <2>1 DEF TypeOK
<1>5. \A j \in Ids : Earned(j)' = Earned(j)
  <2> SUFFICES ASSUME NEW j \in Ids, NEW t \in Sessions
               PROVE  session'[j][t] + forgotten'[j][t] = session[j][t] + forgotten[j][t]
    BY DEF Earned
  <2> QED BY <1>2 DEF TypeOK
<1>6. Books' /\ NothingAhead'
  <2>1. \A u \in Users : u \in Ids
    BY DEF Ids
  <2>2. [j \in Ids |-> Total(Earned(j)')] = [j \in Ids |-> Total(Earned(j))]
    BY <1>5
  <2> QED BY <1>2, <1>5, <2>1, <2>2 DEF Books, NothingAhead
<1>7. BoardsMatchLedger'
  BY <1>1, <1>2, SameFigures DEF BoardsMatchLedger
<1> QED BY <1>1, <1>4, <1>6, <1>7

(* A conversion pays a guest's points out once, to one account. *)
LEMMA ConvertBooks ==
  ASSUME BooksInv, NEW u \in Users, NEW g \in Guests, Convert(u, g)
  PROVE  BooksInv'
<1> USE DEF BooksInv
<1>1. LedgerInv'
  BY ConvertStep
<1>2. PICK moved \in Nat : moved = Moved(g) /\ moved <= total[g]
  <2>1. PICK points \in Nat : points = total[g]
    BY DEF TypeOK, Ids
  <2>2. PICK cap \in Nat : cap = ConversionCap
    BY XpAssumption
  <2>3. Min({points, cap}) \in Nat /\ Min({points, cap}) <= points
    BY MinOfTwo, Zenon
  <2> QED BY <2>1, <2>2, <2>3 DEF Moved
<1>3. /\ converted[u] = 0
      /\ total' = [total EXCEPT ![u] = @ + moved, ![g] = 0]
      /\ converted' = [converted EXCEPT ![u] = moved]
      /\ lost' = lost + (total[g] - moved)
      /\ board' = IF u \in hidden THEN board
                  ELSE [board EXCEPT ![u]["all"] = total[u] + moved]
      /\ UNCHANGED <<today, daily, session, lastSync, touched, paid, paidOn, forgotten, hidden,
                     visible, patch, repair, behind>>
  BY <1>2 DEF Convert, Emptied
<1>4. /\ total \in [Ids -> Nat] /\ converted \in [Users -> Nat] /\ lost \in Nat
      /\ board \in [Users -> [Periods -> Nat]] /\ today \in Days
      /\ u \in Ids /\ g \in Ids /\ u # g /\ IsFiniteSet(Ids)
      /\ \A v \in Users : v # g /\ v \in Ids
  BY XpAssumption DEF TypeOK, Ids
<1>5. /\ total' = [[total EXCEPT ![u] = total[u] + moved] EXCEPT ![g] = 0]
      /\ total[u] + moved \in Nat /\ total[g] \in Nat
      /\ total'[u] = total[u] + moved
      /\ \A v \in Users : v # u => total'[v] = total[v]
  BY <1>3, <1>4
<1>6. TypeOK'
  <2>1. total' \in [Ids -> Nat] /\ converted' \in [Users -> Nat]
    BY <1>1 DEF LedgerInv, CountersType
  <2>2. lost' \in Nat
    BY <1>2, <1>3, <1>4, <1>5
  <2>3. board' \in [Users -> [Periods -> Nat]]
    BY <1>3, <1>4, <1>5
  <2> QED BY <1>3, <2>1, <2>2, <2>3 DEF TypeOK
<1>7. Books'
  <2>0. \A j \in Ids : Earned(j)' = Earned(j)
    BY <1>3 DEF Earned
  <2>1. Total(total') = Total(total) + moved - total[g] /\ Total(total) \in Nat
    <3> DEFINE mid == [total EXCEPT ![u] = total[u] + moved]
    <3>1. mid \in [Ids -> Nat] /\ mid[g] = total[g] /\ total' = [mid EXCEPT ![g] = 0]
      BY <1>4, <1>5
    <3> HIDE DEF BooksInv
    <3>2. Total(mid) = Total(total) + moved /\ Total(total) \in Nat
      <4>1. total \in [Ids -> Nat] /\ u \in Ids /\ IsFiniteSet(Ids)
        BY <1>4
      <4> QED BY <4>1, TotalGrows
    <3> HIDE DEF mid
    <3>3. Total(total') = Total(mid) - mid[g] + 0
      <4>1. mid \in [Ids -> Nat] /\ g \in Ids /\ IsFiniteSet(Ids) /\ 0 \in Nat
        BY <1>4, <3>1
      <4>2. Total([mid EXCEPT ![g] = 0]) = Total(mid) - mid[g] + 0
        BY <4>1, TotalUpdate
      <4> QED BY <3>1, <4>2
    <3> QED BY <1>5, <3>1, <3>2, <3>3
  <2>2. Total(total') + lost' = Total([i \in Ids |-> Total(Earned(i))])
    <3>1. Total(total) + lost = Total([i \in Ids |-> Total(Earned(i))])
      BY DEF Books
    <3>2. Total(total') + lost' = Total(total) + lost
      BY <1>3, <1>4, <1>5, <2>1
    <3> QED BY <3>1, <3>2
  <2>3. \A v \in Users : total'[v] = Total(Earned(v)') + converted'[v]
    <3> TAKE v \in Users
    <3>1. total[v] = Total(Earned(v)) + converted[v] /\ Total(Earned(v)) \in Nat
      BY <1>4, EarnedType DEF Books, LedgerInv
    <3>2. Total(Earned(v)') = Total(Earned(v))
      BY <1>4, <2>0
    <3>3. converted'[v] = converted[v] + (IF v = u THEN moved ELSE 0) /\ converted[v] \in Nat
      BY <1>3, <1>4
    <3> QED BY <1>3, <1>4, <1>5, <3>1, <3>2, <3>3
  <2>4. [i \in Ids |-> Total(Earned(i)')] = [i \in Ids |-> Total(Earned(i))]
    BY <2>0
  <2> QED BY <1>3, <1>4, <2>0, <2>2, <2>3, <2>4 DEF Books
<1>8. NothingAhead'
  BY <1>3 DEF NothingAhead
<1>9. BoardsMatchLedger'
  <2> SUFFICES ASSUME NEW v \in Users \ (hidden \cup behind)
               PROVE  board'[v] = Figures(v, today)'
    BY <1>3 DEF BoardsMatchLedger
  <2>1. board[v] = Figures(v, today)
    BY DEF BoardsMatchLedger
  <2>2. CASE v # u
    <3>1. board'[v] = board[v] /\ total'[v] = total[v] /\ daily'[v] = daily[v]
      BY <1>3, <1>4, <1>5, <2>2
    <3> QED BY <1>1, <1>3, <2>1, <3>1, SameFigures
  <2>3. CASE v = u
    <3>1. board'[v] = [board[v] EXCEPT !["all"] = total[v] + moved]
      BY <1>3, <1>4, <2>3
    <3>2. /\ Figures(v, today) = [p \in Periods |-> CASE p = "all" -> total[v]
                                             [] p = "day" -> daily[v][today]
                                             [] p = "week" -> WeekSum(v, today)]
      BY <1>4, FiguresFacts
    <3>3. Figures(v, today)' = [p \in Periods |-> CASE p = "all" -> total[v] + moved
                                             [] p = "day" -> daily[v][today]
                                             [] p = "week" -> WeekSum(v, today)]
      <4>1. total'[v] = total[v] + moved /\ daily' = daily /\ today' = today
        BY <1>3, <1>5, <2>3
      <4> QED BY <4>1 DEF Figures, WeekSum
    <3> QED BY <2>1, <3>1, <3>2, <3>3 DEF Periods
  <2> QED BY <2>2, <2>3
<1> QED BY <1>1, <1>6, <1>7, <1>8, <1>9

(* Hiding and showing change who is on the boards, not the scores. *)
LEMMA PatchBooks ==
  ASSUME BooksInv, NEW u \in Users, Patch(u)
  PROVE  BooksInv'
<1> USE DEF BooksInv
<1>1. LedgerInv'
  BY OtherSteps
<1>2. UNCHANGED <<today, total, daily, session, lastSync, touched, paid, paidOn, forgotten,
                  converted, repair, lost>>
  BY DEF Patch, OptOut, OptOutStored, OptIn, OptInSynced, PatchFails, counters
<1>3. /\ Books' /\ NothingAhead'
      /\ \A v \in Users : Figures(v, today)' = Figures(v, today)
  BY <1>1, <1>2, BooksKept
<1>4. today \in Days /\ board \in [Users -> [Periods -> Nat]]
      /\ Figures(u, today) \in [Periods -> Nat] /\ Nobody \in [Periods -> Nat]
  BY FiguresFacts DEF TypeOK, Nobody
<1>5. CASE OptOut(u)
  <2>1. /\ hidden' = hidden \cup {u} /\ board' = [board EXCEPT ![u] = Nobody]
        /\ patch' = [patch EXCEPT ![u] = "hiding"] /\ visible' = visible /\ behind' = behind
    BY <1>5 DEF OptOut, Hide
  <2>2. TypeOK'
    BY <1>2, <1>4, <2>1 DEF TypeOK
  <2>3. BoardsMatchLedger'
    BY <1>3, <1>4, <2>1 DEF BoardsMatchLedger
  <2> QED BY <1>1, <1>3, <2>2, <2>3
<1>6. CASE OptOutStored(u) \/ OptIn(u) \/ PatchFails(u)
  <2>1. UNCHANGED <<hidden, board, behind>>
    BY <1>6 DEF OptOutStored, OptIn, PatchFails
  <2>2. /\ visible' \subseteq Users /\ patch' \in [Users -> {"none", "hiding", "showing"}]
    BY <1>6 DEF OptOutStored, OptIn, PatchFails, TypeOK
  <2>3. TypeOK'
    BY <1>2, <2>1, <2>2 DEF TypeOK
  <2>4. BoardsMatchLedger'
    BY <1>3, <2>1 DEF BoardsMatchLedger
  <2> QED BY <1>1, <1>3, <2>3, <2>4
<1>7. CASE OptInSynced(u)
  <2>1. /\ hidden' = hidden \ {u} /\ board' = [board EXCEPT ![u] = Figures(u, today)]
        /\ patch' = [patch EXCEPT ![u] = "none"] /\ visible' = visible /\ behind' = behind \ {u}
    BY <1>7 DEF OptInSynced
  <2>2. TypeOK'
    BY <1>2, <1>4, <2>1 DEF TypeOK
  <2>3. BoardsMatchLedger'
    BY <1>3, <1>4, <2>1 DEF BoardsMatchLedger
  <2> QED BY <1>1, <1>3, <2>2, <2>3
<1> QED BY <1>5, <1>6, <1>7 DEF Patch

(* Maintenance writes u's scores and keeps track of whether they are right. *)
LEMMA WriteBooks ==
  ASSUME BooksInv, LedgerInv', NEW u \in Users, NEW scores \in [Periods -> Nat],
         board' = [board EXCEPT ![u] = scores], Track(u, scores), repair' = Idle,
         UNCHANGED <<today, total, daily, session, lastSync, touched, paid, paidOn, forgotten,
                     converted, hidden, visible, patch, lost>>
  PROVE  BooksInv'
<1> USE DEF BooksInv
<1>1. /\ Books' /\ NothingAhead'
      /\ \A v \in Users : Figures(v, today)' = Figures(v, today)
  BY BooksKept
<1>2. TypeOK'
  BY DEF TypeOK, Track
<1>3. BoardsMatchLedger'
  BY <1>1 DEF BoardsMatchLedger, Track, TypeOK
<1> QED BY <1>1, <1>2, <1>3

(* The maintenance copies the ledger to the boards. *)
LEMMA MaintainBooks ==
  ASSUME BooksInv, Maintain
  PROVE  BooksInv'
<1> USE DEF BooksInv
<1>1. LedgerInv'
  BY OtherSteps
<1>2. UNCHANGED <<today, total, daily, session, lastSync, touched, paid, paidOn, forgotten,
                  converted, lost>>
  BY DEF Maintain, FillRead, FillWrite, FillFails, Filled, PruneRead, PruneWrite, PruneFails,
         counters
<1>3. /\ Books' /\ NothingAhead'
      /\ \A v \in Users : Figures(v, today)' = Figures(v, today)
  BY <1>1, <1>2, BooksKept
<1>4. ASSUME UNCHANGED <<hidden, board, visible, patch, behind>>, repair' \in Repair \cup {Idle}
      PROVE  BooksInv'
  <2>1. TypeOK'
    BY <1>2, <1>4 DEF TypeOK
  <2>2. BoardsMatchLedger'
    BY <1>3, <1>4 DEF BoardsMatchLedger
  <2> QED BY <1>1, <1>3, <2>1, <2>2
<1>5. ASSUME NEW u \in Users, FillRead(u) PROVE BooksInv'
  <2>1. /\ repair' = [kind |-> "fill", user |-> u, day |-> today, score |-> Figures(u, today)]
        /\ UNCHANGED <<hidden, board, visible, patch, behind>>
    BY <1>5 DEF FillRead
  <2>2. today \in Days /\ Figures(u, today) \in [Periods -> Nat]
    BY FiguresFacts DEF TypeOK
  <2>3. repair' \in Repair
    BY <2>1, <2>2 DEF Repair
  <2> QED BY <1>4, <2>1, <2>3
<1>6. ASSUME NEW u \in Users, NEW p \in Periods, PruneRead(u, p) PROVE BooksInv'
  <2>1. /\ repair' = [kind |-> "prune", user |-> u, day |-> today, period |-> p]
        /\ UNCHANGED <<hidden, board, visible, patch, behind>>
    BY <1>6 DEF PruneRead
  <2>2. repair' \in Repair
    BY <2>1 DEF Repair, TypeOK
  <2> QED BY <1>4, <2>1, <2>2
<1>7. CASE PruneFails
  BY <1>4, <1>7 DEF PruneFails
<1>8. ASSUME NEW written \in SUBSET Periods, Filling, Filled(written) PROVE BooksInv'
  <2> DEFINE u == repair.user
             scores == [p \in Periods |-> IF p \in written \cap Current(repair.day)
                                          THEN repair.score[p] ELSE board[u][p]]
  <2>1. /\ board' = [board EXCEPT ![u] = scores] /\ Track(u, scores) /\ repair' = Idle
        /\ UNCHANGED <<hidden, visible, patch>>
    BY <1>8 DEF Filled
  <2>2. repair \in Repair /\ repair.kind = "fill"
    BY <1>8 DEF Filling, TypeOK
  <2>3. u \in Users /\ repair.score \in [Periods -> Nat]
    BY <2>2 DEF Repair
  <2>4. scores \in [Periods -> Nat]
    BY <2>3 DEF TypeOK
  <2> HIDE DEF scores, u, BooksInv
  <2> QED BY <1>1, <1>2, <2>1, <2>3, <2>4, WriteBooks
<1>9. ASSUME NEW u \in Users, NEW p \in Periods, PruneWrite(u, p) PROVE BooksInv'
  <2> DEFINE scores == [board[u] EXCEPT ![p] = IF p \in Current(repair.day) THEN 0 ELSE @]
  <2>1. /\ board' = [board EXCEPT ![u] = scores] /\ Track(u, scores) /\ repair' = Idle
        /\ UNCHANGED <<hidden, visible, patch>>
    BY <1>9 DEF PruneWrite
  <2>2. scores \in [Periods -> Nat]
    <3>1. board[u] \in [Periods -> Nat]
      BY DEF TypeOK
    <3> QED BY <3>1
  <2> HIDE DEF scores, BooksInv
  <2> QED BY <1>1, <1>2, <2>1, <2>2, WriteBooks
<1> QED BY <1>5, <1>6, <1>7, <1>8, <1>9 DEF Maintain, FillWrite, FillFails

(* Weeks follow each other. *)
LEMMA WeeksGoUp ==
  ASSUME NEW d \in Days, NEW e \in Days, d <= e
  PROVE  WeekOf(d) \in Nat /\ WeekOf(d) <= WeekOf(e)
BY XpAssumption DEF WeekOf, Days

(* A new day starts without points (NothingAhead), and a new week too. *)
LEMMA NextDayBooks ==
  ASSUME BooksInv, NextDay
  PROVE  BooksInv'
<1> USE DEF BooksInv
<1> DEFINE next == today + 1
<1>1. LedgerInv'
  BY OtherSteps
<1>2. /\ today' = next
      /\ board' = [u \in Users |->
           [board[u] EXCEPT !["day"] = 0,
                            !["week"] = IF WeekOf(next) = WeekOf(today) THEN @ ELSE 0]]
      /\ UNCHANGED <<total, daily, session, lastSync, touched, paid, paidOn, forgotten,
                     converted, hidden, visible, patch, repair, lost, behind>>
  BY DEF NextDay, counters
<1>3. today \in Days /\ next \in Days /\ today \in Nat
  BY <1>1, <1>2 DEF TypeOK, LedgerInv, CountersType, Days
<1>4. /\ board \in [Users -> [Periods -> Nat]] /\ daily \in [Ids -> [Days -> Nat]]
  BY DEF TypeOK
<1>5. TypeOK'
  <2>1. board' \in [Users -> [Periods -> Nat]]
    BY <1>2, <1>4 DEF Periods
  <2> QED BY <1>2, <1>3, <2>1 DEF TypeOK
<1>6. Books'
  BY <1>2 DEF Books, Earned
<1>7. NothingAhead'
  BY <1>2, <1>3 DEF NothingAhead, Days
<1>8. BoardsMatchLedger'
  <2> SUFFICES ASSUME NEW u \in Users \ (hidden \cup behind)
               PROVE  board'[u] = Figures(u, today)'
    BY <1>2 DEF BoardsMatchLedger
  <2>1. board[u] = Figures(u, today) /\ u \in Ids
    BY DEF BoardsMatchLedger, Ids
  <2>2. Figures(u, today) = [p \in Periods |-> CASE p = "all" -> total[u]
                                             [] p = "day" -> daily[u][today]
                                             [] p = "week" -> WeekSum(u, today)]
    BY <1>3, FiguresFacts
  <2>3. Figures(u, today)' = [p \in Periods |-> CASE p = "all" -> total[u]
                                             [] p = "day" -> daily[u][next]
                                             [] p = "week" -> WeekSum(u, next)]
    BY <1>2 DEF Figures, WeekSum
  <2>4. daily[u][next] = 0 /\ daily[u] \in [Days -> Nat]
    BY <1>3, <1>4, <2>1 DEF NothingAhead
  <2>5. WeekSum(u, next) = IF WeekOf(next) = WeekOf(today) THEN WeekSum(u, today) ELSE 0
    <3>1. next \in WeekDays(next) /\ WeekDays(next) \in SUBSET Days
      BY <1>3 DEF WeekDays, SameWeek
    <3>2. SumFunctionOnSet(daily[u], WeekDays(next))
            = SumFunctionOnSet(daily[u], WeekDays(next) \ {next})
      <4>1. daily[u] \in [Days -> Int] /\ WeekDays(next) \ {next} \in SUBSET Days
        BY <2>4, <3>1
      <4>2. SumFunctionOnSet(daily[u], WeekDays(next))
              = daily[u][next] + SumFunctionOnSet(daily[u], WeekDays(next) \ {next})
        BY <3>1, <4>1, FinitePeriods, SumTakeOut
      <4>3. SumFunctionOnSet(daily[u], WeekDays(next) \ {next}) \in Int
        BY <4>1, FinitePeriods, SumOnSetRule
      <4> QED BY <2>4, <4>2, <4>3
    <3>3. CASE WeekOf(next) = WeekOf(today)
      <4>1. WeekDays(next) \ {next} = WeekDays(today)
        BY <1>3, <3>3 DEF WeekDays, SameWeek, Days
      <4> QED BY <3>2, <3>3, <4>1 DEF WeekSum
    <3>4. CASE WeekOf(next) # WeekOf(today)
      <4>1. \A d \in Days : d <= today => WeekOf(d) # WeekOf(next)
        <5> SUFFICES ASSUME NEW d \in Days, d <= today, WeekOf(d) = WeekOf(next) PROVE FALSE
          OBVIOUS
        <5>1. WeekOf(d) <= WeekOf(today) /\ WeekOf(today) <= WeekOf(next)
              /\ WeekOf(today) \in Nat /\ WeekOf(next) \in Nat
          BY <1>3, WeeksGoUp
        <5> QED BY <3>4, <5>1
      <4>2. WeekDays(next) \ {next} = {}
        BY <1>3, <4>1 DEF WeekDays, SameWeek, Days
      <4>3. SumFunctionOnSet(daily[u], {}) = 0
        <5>1. daily[u] \in [Days -> Int] /\ {} \in SUBSET Days
          BY <2>4
        <5> QED BY <5>1, FinitePeriods, SumOnSetRule
      <4> QED BY <3>2, <3>4, <4>2, <4>3 DEF WeekSum
    <3> QED BY <3>3, <3>4
  <2>6. board'[u] = [board[u] EXCEPT !["day"] = 0,
                       !["week"] = IF WeekOf(next) = WeekOf(today) THEN @ ELSE 0]
    BY <1>2
  <2> HIDE DEF next
  <2>7. /\ board[u]["all"] = total[u] /\ board[u]["week"] = WeekSum(u, today)
        /\ board[u] \in [Periods -> Nat]
    BY <1>4, <2>1, <2>2 DEF Periods
  <2>8. board'[u] = [p \in Periods |-> CASE p = "all" -> board[u]["all"]
                       [] p = "day" -> 0
                       [] p = "week" -> IF WeekOf(next) = WeekOf(today) THEN board[u]["week"] ELSE 0]
    BY <2>6, <2>7 DEF Periods
  <2> QED BY <2>3, <2>4, <2>5, <2>7, <2>8 DEF Periods
<1> QED BY <1>1, <1>5, <1>6, <1>7, <1>8

(* Every step keeps the books. *)
LEMMA BooksStep == BooksInv /\ [Next]_vars => BooksInv'
<1> SUFFICES ASSUME BooksInv, [Next]_vars PROVE BooksInv'
  OBVIOUS
<1>1. CASE UNCHANGED vars
  <2>1. LedgerInv'
    BY <1>1, OtherSteps DEF BooksInv
  <2>2. UNCHANGED <<today, total, daily, session, lastSync, touched, paid, paidOn, forgotten,
                    converted, hidden, board, visible, patch, repair, lost, behind>>
    BY <1>1 DEF vars, counters
  <2>3. /\ Books' /\ NothingAhead'
        /\ \A u \in Users : Figures(u, today)' = Figures(u, today)
    BY <2>1, <2>2, BooksKept
  <2>4. TypeOK' /\ BoardsMatchLedger'
    BY <2>2, <2>3 DEF BooksInv, TypeOK, BoardsMatchLedger
  <2> QED BY <2>1, <2>3, <2>4 DEF BooksInv
<1>2. ASSUME NEW i \in Ids, NEW s \in Sessions, NEW w \in Windows, NEW d \in Days,
             Award(i, s, w, d) \/ AwardNothing(i, s, w, d)
      PROVE  BooksInv'
  BY <1>2, AwardBooks, AwardNothingBooks
<1>3. ASSUME NEW u \in Users, NEW g \in Guests, Convert(u, g) PROVE BooksInv'
  BY <1>3, ConvertBooks
<1>4. ASSUME NEW u \in Users, Patch(u) PROVE BooksInv'
  BY <1>4, PatchBooks
<1>5. CASE Maintain \/ NextDay
  BY <1>5, MaintainBooks, NextDayBooks
<1>6. ASSUME NEW i \in Ids, NEW s \in Sessions, Expire(i, s) PROVE BooksInv'
  BY <1>6, ExpireBooks
<1> QED BY <1>1, <1>2, <1>3, <1>4, <1>5, <1>6 DEF Next

(* The invariant always holds. *)
LEMMA BooksInvHolds == Spec => []BooksInv
BY BooksInit, BooksStep, PTL DEF Spec

(* The variables keep their types, through awards, conversions, privacy    *)
(* patches, repairs and new days.                                          *)
THEOREM XpTypeCorrect == Spec => []TypeOK
<1>1. BooksInv => TypeOK
  BY DEF BooksInv
<1> QED BY <1>1, BooksInvHolds, PTL

(* What the sessions were paid is in the counters of the days and in the   *)
(* totals, and no conversion makes points.                                 *)
THEOREM CountersAlwaysAgree == Spec => []CountersAgree
<1>1. BooksInv => CountersAgree
  <2> SUFFICES ASSUME BooksInv PROVE CountersAgree
    OBVIOUS
  <2>1. ASSUME NEW i \in Ids PROVE PaidTo(i) = Total(Earned(i))
    <3>1. Earned(i) \in [Sessions -> Nat]
      BY EarnedType DEF BooksInv, LedgerInv
    <3>2. Earned(i) = [s \in Sessions |-> Total(paid[i][s])]
      BY <3>1 DEF BooksInv, Books
    <3> QED BY <3>2 DEF PaidTo
  <2>2. \A u \in Users : u \in Ids
    BY DEF Ids
  <2>3. [i \in Ids |-> PaidTo(i)] = [i \in Ids |-> Total(Earned(i))]
    BY <2>1
  <2>4. \A i \in Ids, s \in Sessions : Earned(i)[s] = session[i][s] + forgotten[i][s]
    BY DEF Earned
  <2> QED BY <2>1, <2>2, <2>3, <2>4 DEF BooksInv, Books, CountersAgree
<1> QED BY <1>1, BooksInvHolds, PTL

(* An account Redis shows has the counters' figures on its boards, through *)
(* failed updates, hiding and showing, repairs and new days and weeks; the *)
(* only exception is an account the maintenance wrote an old reading of.   *)
THEOREM BoardsAlwaysMatch == Spec => []BoardsMatchLedger
<1>1. BooksInv => BoardsMatchLedger
  BY DEF BooksInv
<1> QED BY <1>1, BooksInvHolds, PTL
=============================================================================
