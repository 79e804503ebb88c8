------------------------- MODULE PollScheduleProofs ------------------------
(***************************************************************************)
(* Proofs about PollSchedule, for every interval, resolution, length of a  *)
(* pass and pattern of wake-ups, faults and restarts.                      *)
(***************************************************************************)
EXTENDS PollSchedule, TLAPS

\* A stored timestamp is a time, and never later than the one it was made from.
LEMMA StoredEarlier ==
  ASSUME NEW t \in Nat
  PROVE  Stored(t) \in Nat /\ Stored(t) <= t
<1>1. Second \in Nat /\ Second > 0
  BY ScheduleAssumption
<1>2. t % Second \in 0 .. (Second - 1)
  BY <1>1
<1>3. t = Second * (t \div Second) + (t % Second) /\ t \div Second >= 0
  BY <1>1
<1>4. t % Second <= t
  BY <1>1, <1>2, <1>3
<1> QED
  BY <1>2, <1>4 DEF Stored

----------------------------------------------------------------------------
(* Type correctness *)

\* Nothing stored lies in the future, and a pass has not outlived its time.
Past ==
  /\ now > 0
  /\ lastCheck <= now
  /\ pc # "idle" => dbqr.check <= now /\ began <= now /\ now <= began + MaxPass

\* The constants the arithmetic is about.
LEMMA ConstantTypes ==
  /\ Poll \in Nat /\ Check \in Nat /\ Retry \in Nat /\ Second \in Nat /\ MaxPass \in Nat
  /\ Poll > 0 /\ Check > 0 /\ Retry > 0 /\ Second > 0
  /\ nextRequeueInterval \in Nat /\ nextRequeueInterval > 0
  /\ nextRequeueInterval <= Poll
  /\ Lesser(Poll, Retry) \in Nat /\ Lesser(Poll, Retry) > 0 /\ Lesser(Poll, Retry) <= Poll
  BY ScheduleAssumption DEF nextRequeueInterval, changePollIntervalFor, Lesser

\* A fault is counted.
LEMMA FaultType ==
  ASSUME TypeOK, NEW f, Fault(f)
  PROVE  used' \in [events : Nat, changes : Nat, faults : Nat]
  BY DEF TypeOK, Fault

\* The two ways a pass ends leave well-typed variables.
LEMMA EndPassType ==
  ASSUME TypeOK, EndPass
  PROVE  /\ pc' = "idle" /\ wake' \in Nat /\ began' = 0 /\ dbqr' = NoPass
         /\ changes' \in BOOLEAN /\ after' = 0
         /\ UNCHANGED <<now, gen, queued, table, fullAt, wasted>>
<1>1. changes' \in BOOLEAN
  BY Zenon DEF EndPass
<1>2. wake' \in Nat
  BY DEF EndPass, TypeOK, Lesser
<1> QED
  BY <1>1, <1>2 DEF EndPass

\* Every step preserves the types.
LEMMA TypeStep == TypeOK /\ Past /\ [Next]_vars => TypeOK'
<1> SUFFICES ASSUME TypeOK, Past, [Next]_vars PROVE TypeOK'
  OBVIOUS
<1> USE ConstantTypes DEF PCs, table
<1>0. NoPass \in [gen : Nat, obs : Nat, poll : Nat, check : Nat]
  BY DEF NoPass
<1>1. CASE Begin
  <2>1. queued' \in BOOLEAN
    BY <1>1, Zenon DEF Begin
  <2> QED
    BY <1>1, <2>1 DEF TypeOK, Begin
<1>2. CASE DecideFull
  BY <1>2 DEF TypeOK, DecideFull, ToQuery
<1>3. CASE DecideNotDue
  <2>1. Check - (now - dbqr.check) \in Nat
    BY <1>3 DEF TypeOK, Past, DecideNotDue, NotDue
  <2> QED
    BY <1>3, <2>1 DEF TypeOK, DecideNotDue, ToWrite
<1>4. CASE DetectFails
  BY <1>4, FaultType DEF TypeOK, DetectFails, ToQuery
<1>5. CASE DetectChanges
  <2>1. changes' \in BOOLEAN
    BY <1>5 DEF DetectChanges, TypeOK
  <2> QED
    BY <1>5, <2>1 DEF TypeOK, DetectChanges
<1>6. CASE SaveCheck
  <2>1. Stored(now) \in Nat
    BY StoredEarlier DEF TypeOK
  <2>2. dbqr' \in [gen : Nat, obs : Nat, poll : Nat, check : Nat]
    BY <1>6, <2>1 DEF TypeOK, SaveCheck
  <2>3. lastCheck' \in Nat /\ used' \in [events : Nat, changes : Nat, faults : Nat]
    BY <1>6, <2>1, FaultType DEF TypeOK, SaveCheck
  <2>4. pc' \in PCs /\ after' \in Nat /\ fullAt' \in Nat
    BY <1>6 DEF TypeOK, SaveCheck, ToQuery, ToWrite
  <2> QED
    BY <1>6, <2>2, <2>3, <2>4 DEF TypeOK, SaveCheck
<1>7. CASE QueryFails
  BY <1>7, FaultType DEF TypeOK, QueryFails, ToWrite
<1>8. CASE QueryRead
  <2>1. calm' \in BOOLEAN
    BY <1>8, Zenon DEF QueryRead
  <2> QED
    BY <1>8, <2>1 DEF TypeOK, QueryRead
<1>9. CASE PassWithErrors
  BY <1>9, FaultType DEF TypeOK, PassWithErrors, ToWrite
<1>10. CASE PassSucceeds
  <2>1. Stored(now) \in Nat
    BY StoredEarlier DEF TypeOK
  <2>2. dbqr' \in [gen : Nat, obs : Nat, poll : Nat, check : Nat]
    BY <1>10, <2>1 DEF TypeOK, PassSucceeds
  <2> QED
    BY <1>10, <2>2 DEF TypeOK, PassSucceeds, ToWrite
<1>11. CASE WriteStatus
  <2>1. lastPoll' \in Nat /\ lastCheck' \in Nat /\ observed' \in Nat /\ used' = used
    BY <1>11 DEF TypeOK, WriteStatus
  <2>2. EndPass
    BY <1>11 DEF WriteStatus
  <2> QED
    BY <1>0, <2>1, <2>2, EndPassType DEF TypeOK
<1>12. CASE WriteLost
  <2>1. UNCHANGED <<lastPoll, lastCheck, observed>> /\ EndPass /\ Fault("status")
    BY <1>12 DEF WriteLost
  <2> QED
    BY <1>0, <2>1, EndPassType, FaultType DEF TypeOK
<1>13. CASE Tick
  BY <1>13 DEF TypeOK, Tick
<1>14. CASE TableChanges
  <2>1. PICK t \in (now + 1 - Skew) .. (now + 1 + Skew) :
          /\ stamp' = Greater(stamp, t)
          /\ calm' = IF unread = 0 THEN pc = "idle" /\ t > now ELSE calm
    BY <1>14 DEF TableChanges
  <2>2. t \in Int
    BY ScheduleAssumption DEF TypeOK
  <2>3. stamp' \in Nat
    BY <2>1, <2>2 DEF Greater, TypeOK
  <2>4. calm' \in BOOLEAN
    <3>1. (pc = "idle" /\ t > now) \in BOOLEAN
      BY Zenon
    <3> QED
      BY <2>1, <3>1 DEF TypeOK
  <2> QED
    BY <1>14, <2>3, <2>4 DEF TypeOK, TableChanges
<1>15. CASE TimerFires
  <2>1. queued' \in BOOLEAN
    BY <1>15, Zenon DEF TimerFires
  <2> QED
    BY <1>15, <2>1 DEF TypeOK, TimerFires
<1>16. CASE WatchEvent
  <2>1. queued' \in BOOLEAN
    BY <1>16, Zenon DEF WatchEvent, Woken
  <2> QED
    BY <1>16, <2>1 DEF TypeOK, WatchEvent, Woken
<1>17. CASE SpecEdit
  <2>1. queued' \in BOOLEAN
    BY <1>17, Zenon DEF SpecEdit, Woken
  <2> QED
    BY <1>17, <2>1 DEF TypeOK, SpecEdit, Woken
<1>18. CASE Crash
  <2>1. queued' \in BOOLEAN /\ changes' \in BOOLEAN
    BY <1>18, Zenon DEF Crash
  <2>2. wasted' \in Nat
    BY <1>18 DEF TypeOK, Past, Crash
  <2>3. Fault("crash")
    BY <1>18 DEF Crash
  <2> QED
    BY <1>0, <1>18, <2>1, <2>2, <2>3, FaultType DEF TypeOK, Crash
<1>19. CASE UNCHANGED vars
  BY <1>19 DEF TypeOK, vars
<1> QED
  BY <1>1, <1>2, <1>3, <1>4, <1>5, <1>6, <1>7, <1>8, <1>9, <1>10, <1>11, <1>12,
     <1>13, <1>14, <1>15, <1>16, <1>17, <1>18, <1>19 DEF Next, Pass, Environment

\* Every step keeps the past behind the clock.
LEMMA PastStep == TypeOK /\ Past /\ [Next]_vars => Past'
<1> SUFFICES ASSUME TypeOK, Past, [Next]_vars PROVE Past'
  OBVIOUS
<1> USE ConstantTypes
<1>0. now \in Nat /\ began \in Nat /\ lastCheck \in Nat /\ dbqr.check \in Nat
  BY DEF TypeOK
<1> USE <1>0 DEF Past
<1>1. CASE Begin
  BY <1>1 DEF Begin
<1>2. CASE SaveCheck
  <2>1. Stored(now) \in Nat /\ Stored(now) <= now
    BY StoredEarlier
  <2>2. dbqr'.check = Stored(now)
    BY <1>2 DEF SaveCheck, TypeOK
  <2>3. lastCheck' \in {lastCheck, Stored(now)} /\ now' = now /\ began' = began
    BY <1>2 DEF SaveCheck
  <2> QED
    BY <1>2, <2>1, <2>2, <2>3 DEF SaveCheck
<1>3. CASE PassSucceeds
  <2>1. dbqr'.check = dbqr.check
    BY <1>3 DEF PassSucceeds, TypeOK
  <2> QED
    BY <1>3, <2>1 DEF PassSucceeds
<1>4. CASE DecideFull \/ DecideNotDue \/ DetectFails \/ DetectChanges
             \/ QueryFails \/ QueryRead \/ PassWithErrors
  <2>1. UNCHANGED <<now, lastCheck, began, dbqr>> /\ pc # "idle"
    BY <1>4 DEF DecideFull, DecideNotDue, DetectFails, DetectChanges, QueryFails,
       QueryRead, PassWithErrors
  <2> QED
    BY <2>1
<1>5. CASE WriteStatus \/ WriteLost
  <2>1. pc' = "idle" /\ now' = now /\ lastCheck' \in {lastCheck, dbqr.check}
    BY <1>5 DEF WriteStatus, WriteLost, EndPass
  <2> QED
    BY <1>5, <2>1 DEF WriteStatus, WriteLost
<1>6. CASE Tick \/ TableChanges
  <2>1. now' = now + 1 /\ UNCHANGED <<lastCheck, began, dbqr, pc>>
    BY <1>6 DEF Tick, TableChanges
  <2>2. pc # "idle" => now < began + MaxPass
    BY <1>6 DEF Tick, TableChanges, MayElapse
  <2> QED
    BY <2>1, <2>2
<1>7. CASE TimerFires \/ WatchEvent \/ SpecEdit
  BY <1>7 DEF TimerFires, WatchEvent, SpecEdit, Woken
<1>8. CASE Crash
  BY <1>8 DEF Crash
<1>9. CASE UNCHANGED vars
  BY <1>9 DEF vars
<1> QED
  BY <1>1, <1>2, <1>3, <1>4, <1>5, <1>6, <1>7, <1>8, <1>9 DEF Next, Pass, Environment

\* The inductive form of type correctness.
LEMMA ScheduleTyped == Spec => [](TypeOK /\ Past)
<1>1. Init => TypeOK /\ Past
  <2> SUFFICES ASSUME Init PROVE TypeOK /\ Past
    OBVIOUS
  <2>1. queued \in BOOLEAN /\ changes \in BOOLEAN /\ calm \in BOOLEAN
    BY Zenon DEF Init
  <2>2. NoPass \in [gen : Nat, obs : Nat, poll : Nat, check : Nat]
    BY DEF NoPass
  <2> QED
    BY <2>1, <2>2, ConstantTypes DEF Init, TypeOK, Past, PCs
<1>2. TypeOK /\ Past /\ [Next]_vars => (TypeOK /\ Past)'
  BY TypeStep, PastStep
<1> QED
  BY <1>1, <1>2, PTL DEF Spec

\* The scheduling state keeps its types; in particular no path computes a
\* negative RequeueAfter, which controller-runtime would take for none.
THEOREM ScheduleTypeCorrect == Spec => []TypeOK
  BY ScheduleTyped, PTL

----------------------------------------------------------------------------
(* The schedule *)

Extra == IF Enabled THEN Check ELSE 0
Longest == IF Poll < Check THEN Check ELSE Poll

\* The latest time at which the next pass begins.
Due == fullAt + Poll + Extra + 2 * MaxPass + wasted

\* A success is recorded within the full pass it belongs to.
PollInv ==
  /\ fullAt <= now
  /\ lastPoll <= fullAt + MaxPass
  /\ pc # "idle" => dbqr.poll <= fullAt + MaxPass
  /\ pc \in {"query", "apply"} => began <= fullAt

\* The inductive invariant behind FullPassInTime.  A pass is only skipped
\* while LastPollTime is less than Poll old, so whatever it asks for ends
\* less than one Check after that.
DueInv ==
  /\ pc = "idle" => now <= Due
  /\ pc = "idle" /\ ~queued => wake # 0 /\ wake <= Due /\ wake <= now + Longest
  /\ pc = "decide" => began <= Due
  /\ pc = "save" => Enabled /\ began <= fullAt + Poll + MaxPass
  /\ pc = "write" => /\ began + after <= fullAt + Poll + Extra + MaxPass
                     /\ after <= Longest

\* Sums of the constants are numbers.
LEMMA BoundTypes ==
  /\ Extra \in Nat /\ Longest \in Nat
  /\ Poll <= Longest /\ Check <= Longest
  /\ Enabled => Extra = Check
  BY ConstantTypes DEF Extra, Longest

\* The numbers of a state.
LEMMA StateTypes ==
  ASSUME TypeOK
  PROVE  /\ now \in Nat /\ began \in Nat /\ after \in Nat /\ wake \in Nat
         /\ fullAt \in Nat /\ wasted \in Nat /\ lastPoll \in Nat /\ lastCheck \in Nat
         /\ dbqr.poll \in Nat /\ dbqr.check \in Nat
  BY DEF TypeOK

\* Every step keeps LastPollTime within MaxPass of a full pass.
LEMMA PollStep == TypeOK /\ Past /\ PollInv /\ [Next]_vars => PollInv'
<1> SUFFICES ASSUME TypeOK, Past, PollInv, [Next]_vars PROVE PollInv'
  OBVIOUS
<1> USE ConstantTypes, StateTypes DEF PollInv
<1>1. CASE Begin
  <2>1. dbqr'.poll = lastPoll
    BY <1>1 DEF Begin
  <2> QED
    BY <1>1, <2>1 DEF Begin
<1>2. CASE DecideFull \/ DetectFails
  <2>1. /\ pc = "decide" /\ pc' = "query" /\ fullAt' = now
        /\ UNCHANGED <<now, lastPoll, dbqr, began>>
    BY <1>2 DEF DecideFull, DetectFails, ToQuery
  <2> QED
    BY <2>1 DEF Past
<1>3. CASE DecideNotDue \/ DetectChanges \/ QueryFails \/ QueryRead \/ PassWithErrors
  <2>1. /\ pc # "idle" /\ UNCHANGED <<now, lastPoll, dbqr, began, fullAt>>
        /\ pc' \in {"query", "apply"} => pc \in {"query", "apply"}
    BY <1>3 DEF DecideNotDue, DetectChanges, QueryFails, QueryRead, PassWithErrors,
       ToWrite
  <2> QED
    BY <2>1
<1>4. CASE SaveCheck
  <2>1. dbqr'.poll = dbqr.poll
    BY <1>4 DEF SaveCheck, TypeOK
  <2>2. pc = "save" /\ UNCHANGED <<now, lastPoll, began>>
    BY <1>4 DEF SaveCheck
  <2>3. \/ pc' = "query" /\ fullAt' = now
        \/ pc' = "write" /\ fullAt' = fullAt
    BY <1>4 DEF SaveCheck, ToQuery, ToWrite
  <2> QED
    BY <2>1, <2>2, <2>3 DEF Past
<1>5. CASE PassSucceeds
  <2>1. dbqr'.poll = Stored(now) /\ Stored(now) \in Nat /\ Stored(now) <= now
    BY <1>5, StoredEarlier DEF PassSucceeds, TypeOK
  <2>2. /\ pc = "apply" /\ pc' = "write"
        /\ UNCHANGED <<now, lastPoll, began, fullAt>>
    BY <1>5 DEF PassSucceeds, ToWrite
  <2> QED
    BY <2>1, <2>2 DEF Past
<1>6. CASE WriteStatus \/ WriteLost
  <2>1. /\ pc = "write" /\ pc' = "idle" /\ UNCHANGED <<now, fullAt>>
        /\ lastPoll' \in {lastPoll, dbqr.poll}
    BY <1>6 DEF WriteStatus, WriteLost, EndPass
  <2> QED
    BY <2>1
<1>7. CASE Tick \/ TableChanges
  BY <1>7 DEF Tick, TableChanges
<1>8. CASE TimerFires \/ WatchEvent \/ SpecEdit
  BY <1>8 DEF TimerFires, WatchEvent, SpecEdit, Woken
<1>9. CASE Crash
  BY <1>9 DEF Crash
<1>10. CASE UNCHANGED vars
  BY <1>10 DEF vars
<1> QED
  BY <1>1, <1>2, <1>3, <1>4, <1>5, <1>6, <1>7, <1>8, <1>9, <1>10
     DEF Next, Pass, Environment

\* A pass that skips was begun less than Poll after LastPollTime.
LEMMA SkipIsEarly ==
  ASSUME TypeOK, Past, PollInv, pc = "decide", ~ForceFull
  PROVE  Enabled /\ began <= fullAt + Poll + MaxPass
<1>1. Enabled /\ now - dbqr.poll < Poll
  BY ConstantTypes, StateTypes DEF ForceFull
<1>2. began <= now /\ dbqr.poll <= fullAt + MaxPass
  BY DEF Past, PollInv
<1> QED
  BY <1>1, <1>2, ConstantTypes, StateTypes

\* Every step keeps the deadline of the next pass.
LEMMA DueStep == TypeOK /\ Past /\ PollInv /\ DueInv /\ [Next]_vars => DueInv'
<1> SUFFICES ASSUME TypeOK, Past, PollInv, DueInv, [Next]_vars PROVE DueInv'
  OBVIOUS
<1> USE ConstantTypes, StateTypes, BoundTypes DEF DueInv, Due
<1>1. CASE Begin
  BY <1>1 DEF Begin
<1>2. CASE DecideFull \/ DetectFails
  BY <1>2 DEF DecideFull, DetectFails, ToQuery
<1>3. CASE DecideNotDue
  <2>1. Enabled /\ began <= fullAt + Poll + MaxPass
    BY <1>3, SkipIsEarly DEF DecideNotDue
  <2>2. after' \in Nat /\ after' <= Check
    BY <1>3 DEF DecideNotDue, ToWrite, NotDue, Past
  <2>3. pc' = "write" /\ UNCHANGED <<began, fullAt>>
    BY <1>3 DEF DecideNotDue, ToWrite
  <2> QED
    BY <2>1, <2>2, <2>3
<1>4. CASE DetectChanges
  <2>1. Enabled /\ began <= fullAt + Poll + MaxPass
    BY <1>4, SkipIsEarly DEF DetectChanges
  <2> QED
    BY <1>4, <2>1 DEF DetectChanges
<1>5. CASE SaveCheck
  <2>1. Enabled /\ began <= fullAt + Poll + MaxPass
    BY <1>5 DEF SaveCheck
  <2>2. \/ pc' = "query"
        \/ pc' = "write" /\ after' = Check /\ UNCHANGED <<began, fullAt>>
    BY <1>5 DEF SaveCheck, ToQuery, ToWrite
  <2> QED
    BY <2>1, <2>2
<1>6. CASE QueryFails \/ PassWithErrors \/ PassSucceeds
  <2>1. pc' = "write" /\ began <= fullAt /\ UNCHANGED <<began, fullAt>>
    BY <1>6 DEF QueryFails, PassWithErrors, PassSucceeds, ToWrite, PollInv
  <2>2. after' \in Nat /\ after' <= Poll
    BY <1>6 DEF QueryFails, PassWithErrors, PassSucceeds, ToWrite
  <2> QED
    BY <2>1, <2>2
<1>7. CASE QueryRead
  BY <1>7 DEF QueryRead
<1>8. CASE WriteStatus \/ WriteLost
  <2>1. /\ pc = "write" /\ pc' = "idle"
        /\ UNCHANGED <<now, fullAt, wasted, queued>>
        /\ wake' = IF wake # 0 THEN Lesser(wake, now + after) ELSE now + after
    BY <1>8 DEF WriteStatus, WriteLost, EndPass
  <2>2. wake' # 0 /\ wake' <= now + after
    BY <2>1 DEF Lesser, Past
  <2>3. now <= began + MaxPass
    BY <2>1 DEF Past
  <2>4. wake' \in Nat
    BY <2>1 DEF Lesser
  <2> QED
    BY <2>1, <2>2, <2>3, <2>4
<1>9. CASE Tick \/ TableChanges
  <2>1. /\ now' = now + 1
        /\ UNCHANGED <<pc, queued, wake, fullAt, wasted, began, after>>
        /\ pc = "idle" => ~queued /\ wake > now
    BY <1>9 DEF Tick, TableChanges, MayElapse
  <2> QED
    BY <2>1
<1>10. CASE TimerFires \/ WatchEvent \/ SpecEdit
  <2>1. queued' /\ UNCHANGED <<pc, now, fullAt, wasted, began, after>>
    BY <1>10 DEF TimerFires, WatchEvent, SpecEdit, Woken
  <2> QED
    BY <2>1
<1>11. CASE Crash
  <2>1. pc' = "idle" /\ queued' /\ UNCHANGED <<now, fullAt>>
    BY <1>11 DEF Crash
  <2>2. wasted' = IF pc = "idle" THEN wasted ELSE wasted + (now - began)
    BY <1>11 DEF Crash
  <2>3. pc # "idle" => began <= Due /\ began <= now
    BY DEF TypeOK, PCs, Past, PollInv
  <2>4. now <= Due'
    BY <2>1, <2>2, <2>3
  <2> QED
    BY <2>1, <2>4
<1>12. CASE UNCHANGED vars
  BY <1>12 DEF vars
<1> QED
  BY <1>1, <1>2, <1>3, <1>4, <1>5, <1>6, <1>7, <1>8, <1>9, <1>10, <1>11, <1>12
     DEF Next, Pass, Environment

\* The inductive invariant of the schedule.
LEMMA ScheduleInvariant == Spec => [](TypeOK /\ Past /\ PollInv /\ DueInv)
<1>1. Init => PollInv /\ DueInv
  BY ConstantTypes, BoundTypes DEF Init, PollInv, DueInv, Due
<1> QED
  BY <1>1, ScheduleTyped, PollStep, DueStep, PTL DEF Spec

\* A full pass is decided at least every pollInterval plus changePollInterval
\* (plus the passes' own length), for ANY two intervals, even when detection
\* is slower than polling, and whatever fails, wakes or restarts the operator.
THEOREM FullPassesAreTimely == Spec => []FullPassInTime
<1>1. TypeOK /\ Past /\ PollInv /\ DueInv => FullPassInTime
  <2> SUFFICES ASSUME TypeOK, Past, PollInv, DueInv PROVE FullPassInTime
    OBVIOUS
  <2>1. pc # "idle" => began <= Due /\ now <= began + MaxPass
    BY ConstantTypes, StateTypes, BoundTypes DEF TypeOK, PCs, Past, PollInv, DueInv, Due
  <2>2. now <= Due + MaxPass
    BY <2>1, ConstantTypes, StateTypes, BoundTypes DEF DueInv, Due
  <2> QED
    BY <2>2, ConstantTypes, StateTypes, BoundTypes
       DEF Due, FullPassInTime, Slack, Extra
<1> QED
  BY <1>1, ScheduleInvariant, PTL

\* Polling never stops: between passes a wake-up is pending, at most one
\* interval away.
THEOREM PollingGoesOn == Spec => []WakePending
<1>1. DueInv => WakePending
  BY DEF DueInv, WakePending, Longest
<1> QED
  BY <1>1, ScheduleInvariant, PTL

----------------------------------------------------------------------------
(* Changes of the table *)

\* The latest time at which a pass that reads the oldest unread change begins.
ReadDue == unread + Poll + Extra + 2 * MaxPass + wasted + excused

\* No timestamp of a success lies in the future, and no wake-up is further
\* away than both intervals together.
NearInv ==
  /\ lastPoll <= now
  /\ pc # "idle" => dbqr.poll <= now
  /\ pc = "idle" /\ ~queued => wake <= now + Poll + Extra
  /\ pc = "write" => after <= Poll + Extra

\* The inductive invariant behind ChangeReadInTime: DueInv with the commit
\* time of the change in place of the last full pass.  A success recorded
\* after the change belongs to a pass that had already read the table.
ReadInv ==
  unread # 0 =>
    /\ lastPoll <= unread + MaxPass
    /\ pc # "idle" => dbqr.poll <= unread + MaxPass
    /\ pc = "idle" => now <= ReadDue
    /\ pc = "idle" /\ ~queued => wake <= ReadDue
    /\ pc \in {"decide", "query"} => began <= ReadDue
    /\ pc = "save" => began <= unread + Poll + MaxPass
    /\ pc = "apply" => began <= unread
    /\ pc = "write" => began + after + MaxPass <= ReadDue

\* Every step preserves NearInv.
LEMMA NearStep == TypeOK /\ Past /\ DueInv /\ NearInv /\ [Next]_vars => NearInv'
<1> SUFFICES ASSUME TypeOK, Past, DueInv, NearInv, [Next]_vars PROVE NearInv'
  OBVIOUS
<1> USE ConstantTypes, StateTypes, BoundTypes DEF NearInv
<1>1. CASE Begin
  <2>1. dbqr'.poll = lastPoll
    BY <1>1 DEF Begin
  <2> QED
    BY <1>1, <2>1 DEF Begin
<1>2. CASE DecideFull \/ DetectFails \/ DetectChanges \/ QueryRead
  <2>1. /\ pc # "idle" /\ pc' \in {"query", "save", "apply"}
        /\ UNCHANGED <<now, lastPoll, dbqr>>
    BY <1>2 DEF DecideFull, DetectFails, DetectChanges, QueryRead, ToQuery
  <2> QED
    BY <2>1
<1>3. CASE DecideNotDue
  <2>1. after' \in Nat /\ after' <= Check /\ Enabled
    BY <1>3 DEF DecideNotDue, ToWrite, NotDue, Past, ForceFull
  <2> QED
    BY <1>3, <2>1 DEF DecideNotDue, ToWrite
<1>4. CASE SaveCheck
  <2>1. dbqr'.poll = dbqr.poll
    BY <1>4 DEF SaveCheck, TypeOK
  <2>2. Enabled /\ pc = "save" /\ UNCHANGED <<now, lastPoll>>
    BY <1>4 DEF SaveCheck, DueInv
  <2>3. pc' = "query" \/ (pc' = "write" /\ after' = Check)
    BY <1>4 DEF SaveCheck, ToQuery, ToWrite
  <2> QED
    BY <2>1, <2>2, <2>3
<1>5. CASE QueryFails \/ PassWithErrors
  <2>1. /\ pc # "idle" /\ pc' = "write" /\ UNCHANGED <<now, lastPoll, dbqr>>
        /\ after' \in Nat /\ after' <= Poll
    BY <1>5 DEF QueryFails, PassWithErrors, ToWrite
  <2> QED
    BY <2>1
<1>6. CASE PassSucceeds
  <2>1. dbqr'.poll = Stored(now) /\ Stored(now) \in Nat /\ Stored(now) <= now
    BY <1>6, StoredEarlier DEF PassSucceeds, TypeOK
  <2> QED
    BY <1>6, <2>1 DEF PassSucceeds, ToWrite
<1>7. CASE WriteStatus \/ WriteLost
  <2>1. /\ pc = "write" /\ pc' = "idle" /\ now' = now
        /\ lastPoll' \in {lastPoll, dbqr.poll}
        /\ wake' = IF wake # 0 THEN Lesser(wake, now + after) ELSE now + after
    BY <1>7 DEF WriteStatus, WriteLost, EndPass
  <2>2. wake' \in Nat /\ wake' <= now + after
    BY <2>1 DEF Lesser
  <2> QED
    BY <2>1, <2>2
<1>8. CASE Tick \/ TableChanges
  BY <1>8 DEF Tick, TableChanges
<1>9. CASE TimerFires \/ WatchEvent \/ SpecEdit
  BY <1>9 DEF TimerFires, WatchEvent, SpecEdit, Woken
<1>10. CASE Crash
  BY <1>10 DEF Crash
<1>11. CASE UNCHANGED vars
  BY <1>11 DEF vars
<1> QED
  BY <1>1, <1>2, <1>3, <1>4, <1>5, <1>6, <1>7, <1>8, <1>9, <1>10, <1>11
     DEF Next, Pass, Environment

\* Every step preserves ReadInv; a failed query buys itself one more interval.
LEMMA ReadStep ==
  TypeOK /\ Past /\ DueInv /\ NearInv /\ ReadInv /\ [Next]_vars => ReadInv'
<1> SUFFICES ASSUME TypeOK, Past, DueInv, NearInv, ReadInv, [Next]_vars PROVE ReadInv'
  OBVIOUS
<1>0. unread \in Nat /\ excused \in Nat
  BY DEF TypeOK
<1> USE <1>0, ConstantTypes, StateTypes, BoundTypes DEF ReadInv, ReadDue, table
<1>1. CASE Begin
  <2>1. dbqr'.poll = lastPoll
    BY <1>1 DEF Begin
  <2> QED
    BY <1>1, <2>1 DEF Begin
<1>2. CASE DecideFull \/ DetectFails
  <2>1. /\ pc = "decide" /\ pc' = "query"
        /\ UNCHANGED <<now, lastPoll, dbqr, began, unread, wasted, excused>>
    BY <1>2 DEF DecideFull, DetectFails, ToQuery
  <2> QED
    BY <2>1
<1>3. CASE DecideNotDue \/ DetectChanges
  <2>1. pc = "decide" /\ UNCHANGED <<now, lastPoll, dbqr, began, unread, wasted, excused>>
    BY <1>3 DEF DecideNotDue, DetectChanges
  <2>2. Enabled /\ now - dbqr.poll < Poll
    BY <1>3 DEF DecideNotDue, DetectChanges, ForceFull
  <2>3. unread # 0 => began <= unread + Poll + MaxPass
    BY <2>1, <2>2 DEF Past
  <2>4. pc' = "save" \/ (pc' = "write" /\ after' \in Nat /\ after' <= Check)
    BY <1>3 DEF DecideNotDue, DetectChanges, ToWrite, NotDue, Past
  <2> QED
    BY <2>1, <2>2, <2>3, <2>4
<1>4. CASE SaveCheck
  <2>1. dbqr'.poll = dbqr.poll
    BY <1>4 DEF SaveCheck, TypeOK
  <2>2. Enabled /\ pc = "save" /\ UNCHANGED <<now, lastPoll, began, unread, wasted, excused>>
    BY <1>4 DEF SaveCheck, DueInv
  <2>3. pc' = "query" \/ (pc' = "write" /\ after' = Check)
    BY <1>4 DEF SaveCheck, ToQuery, ToWrite
  <2> QED
    BY <2>1, <2>2, <2>3
<1>5. CASE QueryFails
  <2>1. /\ pc = "query" /\ pc' = "write" /\ after' \in Nat /\ after' <= Poll
        /\ excused' = excused + Poll + MaxPass
        /\ UNCHANGED <<now, lastPoll, dbqr, began, unread, wasted>>
    BY <1>5 DEF QueryFails, ToWrite
  <2> QED
    BY <2>1
<1>6. CASE QueryRead
  BY <1>6 DEF QueryRead
<1>7. CASE PassWithErrors
  BY <1>7 DEF PassWithErrors, ToWrite
<1>8. CASE PassSucceeds
  <2>1. dbqr'.poll = Stored(now) /\ Stored(now) \in Nat /\ Stored(now) <= now
    BY <1>8, StoredEarlier DEF PassSucceeds, TypeOK
  <2>2. /\ pc = "apply" /\ pc' = "write" /\ after' = nextRequeueInterval
        /\ UNCHANGED <<now, lastPoll, began, unread, wasted, excused>>
    BY <1>8 DEF PassSucceeds, ToWrite
  <2> QED
    BY <2>1, <2>2 DEF Past
<1>9. CASE WriteStatus \/ WriteLost
  <2>1. /\ pc = "write" /\ pc' = "idle" /\ UNCHANGED <<now, unread, wasted, excused, queued>>
        /\ lastPoll' \in {lastPoll, dbqr.poll}
        /\ wake' = IF wake # 0 THEN Lesser(wake, now + after) ELSE now + after
    BY <1>9 DEF WriteStatus, WriteLost, EndPass
  <2>2. wake' \in Nat /\ wake' <= now + after
    BY <2>1 DEF Lesser
  <2>3. now <= began + MaxPass
    BY <2>1 DEF Past
  <2> QED
    BY <2>1, <2>2, <2>3
<1>10. CASE Tick \/ (TableChanges /\ unread # 0)
  <2>1. /\ now' = now + 1
        /\ UNCHANGED <<pc, queued, wake, lastPoll, dbqr, unread, wasted, excused, began, after>>
        /\ pc = "idle" => ~queued /\ wake > now
    BY <1>10 DEF Tick, TableChanges, MayElapse
  <2> QED
    BY <2>1
<1>11. CASE TableChanges /\ unread = 0
  <2>1. /\ unread' = now + 1 /\ now' = now + 1
        /\ UNCHANGED <<pc, queued, wake, lastPoll, dbqr, wasted, excused, began, after>>
        /\ pc = "idle" => ~queued
    BY <1>11 DEF TableChanges, MayElapse
  <2> QED
    BY <2>1 DEF NearInv, Past
<1>12. CASE TimerFires \/ WatchEvent \/ SpecEdit
  <2>1. queued' /\ UNCHANGED <<pc, now, lastPoll, dbqr, unread, wasted, excused, began, after>>
    BY <1>12 DEF TimerFires, WatchEvent, SpecEdit, Woken
  <2> QED
    BY <2>1
<1>13. CASE Crash
  <2>1. pc' = "idle" /\ queued' /\ UNCHANGED <<now, lastPoll, unread, excused>>
    BY <1>13 DEF Crash
  <2>2. wasted' = IF pc = "idle" THEN wasted ELSE wasted + (now - began)
    BY <1>13 DEF Crash
  <2>3. pc # "idle" /\ unread # 0 => began <= ReadDue /\ began <= now
    BY DEF TypeOK, PCs, Past
  <2>4. unread # 0 => now <= ReadDue'
    BY <2>1, <2>2, <2>3
  <2> QED
    BY <2>1, <2>4
<1>14. CASE UNCHANGED vars
  BY <1>14 DEF vars
<1> QED
  BY <1>1, <1>2, <1>3, <1>4, <1>5, <1>6, <1>7, <1>8, <1>9, <1>10, <1>11, <1>12,
     <1>13, <1>14 DEF Next, Pass, Environment

\* Every change of the table is read within pollInterval plus
\* changePollInterval plus one pollInterval per failed query: also one that
\* falls between the detection query and the timestamp saved after it, one
\* dated before the last check, and one whose detection a crash or a lost
\* status write follows.
THEOREM ChangesAreRead == Spec => []ChangeReadInTime
<1>1. Init => NearInv /\ ReadInv
  BY ConstantTypes, BoundTypes DEF Init, NearInv, ReadInv, ReadDue
<1>2. TypeOK /\ Past /\ ReadInv => ChangeReadInTime
  <2> SUFFICES ASSUME TypeOK, Past, ReadInv, unread # 0 PROVE ChangeReadInTime
    BY DEF ChangeReadInTime
  <2>0. unread \in Nat /\ excused \in Nat
    BY DEF TypeOK
  <2>1. pc # "idle" => began <= ReadDue /\ now <= began + MaxPass
    BY <2>0, ConstantTypes, StateTypes, BoundTypes DEF TypeOK, PCs, Past, ReadInv, ReadDue
  <2>2. now <= ReadDue + MaxPass
    BY <2>0, <2>1, ConstantTypes, StateTypes, BoundTypes DEF ReadInv, ReadDue
  <2> QED
    BY <2>0, <2>2, ConstantTypes, StateTypes, BoundTypes
       DEF ReadDue, ChangeReadInTime, Slack, Extra
<1>3. TypeOK /\ Past /\ DueInv /\ NearInv /\ ReadInv /\ [Next]_vars => ReadInv'
  BY ReadStep
<1> QED
  BY <1>1, <1>2, <1>3, NearStep, ScheduleInvariant, PTL DEF Spec

----------------------------------------------------------------------------
(* What change detection adds *)

\* The latest time at which a pass that sees the change begins.
SeeDue == unread + Check + MaxPass

\* Until something fails, no pass asks for more than changePollInterval.
OftenInv ==
  used.faults = 0 =>
    /\ pc = "idle" /\ ~queued => wake <= now + Check
    /\ pc = "write" => after <= Check

\* The inductive invariant behind ChangeDetectedInTime.  As long as such a
\* change is unread, LastChangeCheckTime lies before it and the newest
\* timestamp does not, so the pass that checks next goes on to the query.
DetectInv ==
  unread # 0 /\ calm /\ used.faults = 0 =>
    /\ unread <= stamp /\ unread <= now
    /\ pc = "idle" => lastCheck < unread /\ now <= SeeDue
    /\ pc = "idle" /\ ~queued => wake <= SeeDue
    /\ pc \in {"decide", "save", "query"} => began <= SeeDue
    /\ pc \in {"decide", "write"} => dbqr.check < unread
    /\ pc = "save" => changes
    /\ pc # "apply"
    /\ pc = "write" => began + after <= unread + Check

\* A fault is no longer none.
LEMMA FaultCounts ==
  ASSUME TypeOK, NEW f, Fault(f)
  PROVE  used'.faults # 0
  BY DEF TypeOK, Fault

\* With change detection the next interval is at most changePollInterval.
LEMMA OftenEnough == Enabled => nextRequeueInterval <= Check
  BY ConstantTypes, ScheduleAssumption DEF nextRequeueInterval, changePollIntervalFor

\* Every step preserves OftenInv.
LEMMA OftenStep ==
  ASSUME Enabled
  PROVE  TypeOK /\ Past /\ OftenInv /\ [Next]_vars => OftenInv'
<1> SUFFICES ASSUME TypeOK, Past, OftenInv, [Next]_vars PROVE OftenInv'
  OBVIOUS
<1> USE ConstantTypes, StateTypes, OftenEnough DEF OftenInv
<1>1. CASE Begin \/ DecideFull \/ DetectChanges \/ QueryRead
  BY <1>1 DEF Begin, DecideFull, DetectChanges, QueryRead, ToQuery
<1>2. CASE DecideNotDue
  BY <1>2 DEF DecideNotDue, ToWrite, NotDue, Past
<1>3. CASE DetectFails \/ QueryFails \/ PassWithErrors \/ WriteLost \/ Crash
  BY <1>3, FaultCounts DEF DetectFails, QueryFails, PassWithErrors, WriteLost, Crash
<1>4. CASE SaveCheck
  <2>1. CASE used' = used
    BY <1>4, <2>1 DEF SaveCheck, ToQuery, ToWrite
  <2>2. CASE Fault("status")
    BY <2>2, FaultCounts
  <2> QED
    BY <1>4, <2>1, <2>2 DEF SaveCheck
<1>5. CASE PassSucceeds
  BY <1>5 DEF PassSucceeds, ToWrite
<1>6. CASE WriteStatus
  BY <1>6 DEF WriteStatus, EndPass, Lesser
<1>7. CASE Tick \/ TableChanges
  <2>1. /\ now' = now + 1 /\ used'.faults = used.faults
        /\ UNCHANGED <<pc, queued, wake, after>>
    BY <1>7 DEF Tick, TableChanges, TypeOK
  <2> QED
    BY <2>1
<1>8. CASE TimerFires \/ WatchEvent \/ SpecEdit
  <2>1. queued' /\ UNCHANGED <<pc, after>> /\ used'.faults = used.faults
    BY <1>8 DEF TimerFires, WatchEvent, SpecEdit, Woken, TypeOK
  <2> QED
    BY <2>1
<1>9. CASE UNCHANGED vars
  BY <1>9 DEF vars
<1> QED
  BY <1>1, <1>2, <1>3, <1>4, <1>5, <1>6, <1>7, <1>8, <1>9 DEF Next, Pass, Environment

\* Every step preserves DetectInv.
LEMMA DetectStep ==
  ASSUME Enabled
  PROVE  TypeOK /\ Past /\ OftenInv /\ DetectInv /\ [Next]_vars => DetectInv'
<1> SUFFICES ASSUME TypeOK, Past, OftenInv, DetectInv, [Next]_vars PROVE DetectInv'
  OBVIOUS
<1>0. unread \in Nat /\ stamp \in Nat /\ calm \in BOOLEAN /\ changes \in BOOLEAN
  BY DEF TypeOK
<1> USE <1>0, ConstantTypes, StateTypes DEF DetectInv, SeeDue
<1>1. CASE Begin
  <2>1. dbqr'.check = lastCheck
    BY <1>1 DEF Begin
  <2> QED
    BY <1>1, <2>1 DEF Begin, table
<1>2. CASE DecideFull
  BY <1>2 DEF DecideFull, ToQuery, table
<1>3. CASE DecideNotDue
  <2>1. after' = Check - (now - dbqr.check) /\ after' \in Nat
    BY <1>3 DEF DecideNotDue, ToWrite, NotDue, Past
  <2>2. /\ pc = "decide" /\ pc' = "write"
        /\ UNCHANGED <<now, dbqr, began, stamp, unread, calm, used>>
    BY <1>3 DEF DecideNotDue, ToWrite, table
  <2>3. began <= now /\ dbqr.check <= now
    BY <2>2 DEF Past
  <2> QED
    BY <2>1, <2>2, <2>3
<1>4. CASE DetectChanges
  <2>1. /\ pc = "decide" /\ pc' = "save" /\ changes' = (stamp > dbqr.check)
        /\ UNCHANGED <<now, began, stamp, unread, calm, used>>
    BY <1>4 DEF DetectChanges, table
  <2>2. unread # 0 /\ calm /\ used.faults = 0 => stamp > dbqr.check /\ unread <= stamp
    BY <2>1
  <2>3. stamp > dbqr.check => changes'
    BY <2>1, Zenon
  <2> QED
    BY <2>1, <2>2, <2>3
<1>5. CASE SaveCheck
  <2>1. CASE Fault("status")
    BY <2>1, FaultCounts
  <2>2. CASE used' = used
    <3>1. pc = "save" /\ UNCHANGED <<now, began, stamp, unread, calm>>
      BY <1>5 DEF SaveCheck, table
    <3>2. changes => pc' = "query"
      BY <1>5 DEF SaveCheck, ToQuery
    <3> QED
      BY <2>2, <3>1, <3>2
  <2> QED
    BY <1>5, <2>1, <2>2 DEF SaveCheck
<1>6. CASE DetectFails \/ QueryFails \/ PassWithErrors \/ WriteLost \/ Crash
  BY <1>6, FaultCounts DEF DetectFails, QueryFails, PassWithErrors, WriteLost, Crash
<1>7. CASE QueryRead
  BY <1>7 DEF QueryRead
<1>8. CASE PassSucceeds
  BY <1>8 DEF PassSucceeds, ToWrite, table
<1>9. CASE WriteStatus
  <2>1. /\ pc = "write" /\ pc' = "idle" /\ lastCheck' = dbqr.check
        /\ UNCHANGED <<now, stamp, unread, calm, used>>
        /\ wake' = IF wake # 0 THEN Lesser(wake, now + after) ELSE now + after
    BY <1>9 DEF WriteStatus, EndPass, table
  <2>2. wake' \in Nat /\ wake' <= now + after
    BY <2>1 DEF Lesser
  <2>3. now <= began + MaxPass
    BY <2>1 DEF Past
  <2> QED
    BY <2>1, <2>2, <2>3
<1>10. CASE Tick
  <2>1. /\ now' = now + 1
        /\ UNCHANGED <<pc, queued, wake, lastCheck, dbqr, stamp, unread, calm, used,
                       began, after, changes>>
        /\ pc = "idle" => ~queued /\ wake > now
    BY <1>10 DEF Tick, MayElapse, table
  <2> QED
    BY <2>1
<1>11. CASE TableChanges
  <2>1. PICK t \in (now + 1 - Skew) .. (now + 1 + Skew) :
          /\ stamp' = Greater(stamp, t)
          /\ calm' = IF unread = 0 THEN pc = "idle" /\ t > now ELSE calm
    BY <1>11 DEF TableChanges
  <2>2. /\ now' = now + 1
        /\ unread' = IF unread = 0 THEN now + 1 ELSE unread
        /\ UNCHANGED <<pc, queued, wake, lastCheck, dbqr, began, after, changes>>
        /\ pc = "idle" => ~queued /\ wake > now
        /\ used'.faults = used.faults
    BY <1>11 DEF TableChanges, MayElapse, TypeOK
  <2>3. t \in Int
    BY ScheduleAssumption
  <2>4. stamp' \in Nat /\ stamp <= stamp' /\ t <= stamp'
    BY <2>1, <2>3 DEF Greater
  <2>5. CASE unread # 0
    BY <2>1, <2>2, <2>4, <2>5
  <2>6. CASE unread = 0 /\ calm'
    <3>1. pc = "idle" /\ t > now
      BY <2>1, <2>6
    <3>2. used'.faults = 0 => wake <= now + Check
      BY <2>2, <3>1 DEF OftenInv
    <3> QED
      BY <2>2, <2>3, <2>4, <2>6, <3>1, <3>2 DEF Past
  <2>7. CASE ~calm'
    BY <2>7
  <2> QED
    BY <2>5, <2>6, <2>7
<1>12. CASE TimerFires \/ WatchEvent \/ SpecEdit
  <2>1. /\ queued' /\ used'.faults = used.faults
        /\ UNCHANGED <<pc, now, lastCheck, dbqr, stamp, unread, calm, began, after,
                       changes>>
    BY <1>12 DEF TimerFires, WatchEvent, SpecEdit, Woken, table, TypeOK
  <2> QED
    BY <2>1
<1>13. CASE UNCHANGED vars
  BY <1>13 DEF vars, table
<1> QED
  BY <1>1, <1>2, <1>3, <1>4, <1>5, <1>6, <1>7, <1>8, <1>9, <1>10, <1>11, <1>12,
     <1>13 DEF Next, Pass, Environment

\* With change detection, a change that appears between two passes, dated
\* then, is read within changePollInterval (plus the passes' own length),
\* however long pollInterval is, until something fails.
THEOREM ChangesAreDetected == Spec => []ChangeDetectedInTime
<1>1. CASE Enabled
  <2>1. Init => OftenInv /\ DetectInv
    BY ConstantTypes DEF Init, OftenInv, DetectInv, SeeDue
  <2>2. TypeOK /\ Past /\ DetectInv => ChangeDetectedInTime
    <3> SUFFICES ASSUME TypeOK, Past, DetectInv, unread # 0, calm, used.faults = 0
                 PROVE  now <= unread + Check + Slack
      BY DEF ChangeDetectedInTime
    <3>0. unread \in Nat
      BY DEF TypeOK
    <3>1. pc # "idle" => now <= began + MaxPass
      BY DEF Past
    <3>2. pc = "write" => began <= unread + Check
      BY <3>0, ConstantTypes, StateTypes DEF DetectInv
    <3> QED
      BY <3>0, <3>1, <3>2, ConstantTypes, StateTypes
         DEF TypeOK, PCs, DetectInv, SeeDue, Slack
  <2>3. TypeOK /\ Past /\ OftenInv /\ [Next]_vars => OftenInv'
    BY <1>1, OftenStep
  <2>4. TypeOK /\ Past /\ OftenInv /\ DetectInv /\ [Next]_vars => DetectInv'
    BY <1>1, DetectStep
  <2> QED
    BY <2>1, <2>2, <2>3, <2>4, ScheduleTyped, PTL DEF Spec
<1>2. CASE ~Enabled
  <2>1. TypeOK => ChangeDetectedInTime
    BY <1>2 DEF ChangeDetectedInTime
  <2> QED
    BY <2>1, ScheduleTyped, PTL
<1> QED
  BY <1>1, <1>2
=============================================================================
