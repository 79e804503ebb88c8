--------------------------- MODULE PollSchedule ----------------------------
(***************************************************************************)
(* When a pass runs and which passes are full: shouldReconcile,            *)
(* detectChanges, the RequeueAfter each path returns and the timestamps    *)
(* the status keeps, for one CR with a valid spec, against a clock.        *)
(*                                                                         *)
(* Time is a number of ticks; the clock moves on its own and with every    *)
(* change of the table.  A pass lasts at most MaxPass ticks and starts as  *)
(* soon as it is queued.  0 stands for an unset timestamp, and, as in      *)
(* detectChanges, for the epoch.  What a pass does to the children, and    *)
(* the invalid specs that stop the polling, are in module Reconcile.       *)
(***************************************************************************)
EXTENDS Integers

CONSTANTS
  Poll,          \* spec.pollInterval
  Check,         \* spec.changeDetection.changePollInterval, or its default
  Enabled,       \* spec.changeDetection is set and enabled
  Retry,         \* the 30 s after a connection error
  Second,        \* ticks in a second, the resolution of a stored timestamp
  MaxPass,       \* the longest a pass takes
  Skew,          \* how far the timestamp of a change is from the operator's
                 \* clock when the change becomes visible: clocks apart, a
                 \* slow commit, a replica that lags
  Faults,        \* which of FaultKinds happen
  Horizon,       \* bound: the clock
  MaxEvents,     \* bound: wake-ups by watch events and edits of the spec
  MaxChanges,    \* bound: changes of the table
  MaxFaults      \* bound: faults

FaultKinds == {"detect", "query", "rows", "status", "crash"}

ASSUME ScheduleAssumption ==
  /\ Poll \in Nat \ {0} /\ Check \in Nat \ {0} /\ Retry \in Nat \ {0}
  /\ Second \in Nat \ {0} /\ MaxPass \in Nat /\ Horizon \in Nat
  /\ Enabled \in BOOLEAN /\ Skew \in Nat
  /\ Faults \subseteq FaultKinds
  /\ MaxEvents \in Nat /\ MaxChanges \in Nat /\ MaxFaults \in Nat

VARIABLES
  now,         \* the clock
  lastPoll,    \* status.lastPollTime
  lastCheck,   \* status.lastChangeCheckTime
  observed,    \* status.observedGeneration
  gen,         \* metadata.generation
  wake,        \* when the pending AddAfter is due
  queued,      \* the work queue holds the request
  pc,          \* where the pass is
  began,       \* when it began
  dbqr,        \* its copy of the generation and the two timestamps
  changes,     \* hasChanges
  after,       \* the RequeueAfter it will return
  stamp,       \* the newest timestamp in the table
  unread,      \* history: when the oldest change no query has read appeared
  calm,        \* history: between passes, and its timestamp is not an old one
  fullAt,      \* history: when the last full pass was decided
  wasted,      \* history: time spent in passes a crash cut short
  excused,     \* history: time that failed queries put a read off by
  used         \* how much of each bound is spent

table == <<stamp, unread, calm, excused>>
vars == <<now, lastPoll, lastCheck, observed, gen, wake, queued, pc, began, dbqr,
          changes, after, table, fullAt, wasted, used>>

PCs == {"idle", "decide", "save", "query", "apply", "write"}

TypeOK ==
  /\ now \in Nat /\ lastPoll \in Nat /\ lastCheck \in Nat
  /\ observed \in Nat /\ gen \in Nat /\ wake \in Nat /\ queued \in BOOLEAN
  /\ pc \in PCs /\ began \in Nat
  /\ dbqr \in [gen : Nat, obs : Nat, poll : Nat, check : Nat]
  /\ changes \in BOOLEAN /\ after \in Nat
  /\ stamp \in Nat /\ unread \in Nat /\ calm \in BOOLEAN
  /\ fullAt \in Nat /\ wasted \in Nat /\ excused \in Nat
  /\ used \in [events : Nat, changes : Nat, faults : Nat]

NoPass == [gen |-> 0, obs |-> 0, poll |-> 0, check |-> 0]

Init ==
  /\ now = Second          \* long after the epoch, on a full second
  /\ lastPoll = 0 /\ lastCheck = 0
  /\ gen = 1 /\ observed = 0
  /\ wake = 0 /\ queued = TRUE
  /\ pc = "idle" /\ began = 0 /\ dbqr = NoPass /\ changes = FALSE /\ after = 0
  /\ stamp = now /\ unread = now /\ calm = TRUE
  /\ fullAt = now /\ wasted = 0 /\ excused = 0
  /\ used = [events |-> 0, changes |-> 0, faults |-> 0]

----------------------------------------------------------------------------
(* Intervals and timestamps *)

Lesser(a, b) == IF a < b THEN a ELSE b
Greater(a, b) == IF a < b THEN b ELSE a

\* A metav1.Time is stored with the resolution of a second.
Stored(t) == t - (t % Second)

changePollIntervalFor == IF Enabled THEN Check ELSE 0

\* Bug: pollInterval is returned whatever changePollInterval says.
BugNextRequeue == Poll

nextRequeueInterval ==
  IF changePollIntervalFor > 0 /\ changePollIntervalFor < Poll
    THEN changePollIntervalFor ELSE Poll

Fault(f) ==
  /\ f \in Faults
  /\ used.faults < MaxFaults
  /\ used' = [used EXCEPT !.faults = @ + 1]

----------------------------------------------------------------------------
(* A pass *)

Begin ==
  /\ pc = "idle" /\ queued
  /\ queued' = FALSE
  /\ pc' = "decide"
  /\ began' = now
  /\ dbqr' = [gen |-> gen, obs |-> observed, poll |-> lastPoll, check |-> lastCheck]
  /\ UNCHANGED <<now, lastPoll, lastCheck, observed, gen, wake, changes, after,
                 table, fullAt, used, wasted>>

\* Bug: pollInterval is counted from the last check.
BugForceFull ==
  \/ dbqr.obs < dbqr.gen
  \/ ~Enabled
  \/ dbqr.poll = 0
  \/ now - dbqr.check >= Poll

\* A new generation, no change detection, never polled, or the interval is over.
ForceFull ==
  \/ dbqr.obs < dbqr.gen
  \/ ~Enabled
  \/ dbqr.poll = 0
  \/ now - dbqr.poll >= Poll

\* Bug: a table checked once is never due again.
BugNeverDue == dbqr.check # 0

NotDue == dbqr.check # 0 /\ now - dbqr.check < Check

ToQuery == pc' = "query" /\ fullAt' = now

\* The pass has its Result; the deferred status write remains.
ToWrite(interval) == pc' = "write" /\ after' = interval

DecideFull ==
  /\ pc = "decide" /\ ForceFull
  /\ ToQuery
  /\ UNCHANGED <<now, lastPoll, lastCheck, observed, gen, wake, queued, began, dbqr,
                 changes, after, table, used, wasted>>

DecideNotDue ==
  /\ pc = "decide" /\ ~ForceFull /\ NotDue
  /\ ToWrite(Check - (now - dbqr.check))
  /\ UNCHANGED <<now, lastPoll, lastCheck, observed, gen, wake, queued, began, dbqr,
                 changes, table, fullAt, used, wasted>>

\* The detection query fails: a full pass, to be safe.
DetectFails ==
  /\ pc = "decide" /\ ~ForceFull /\ ~NotDue
  /\ Fault("detect")
  /\ ToQuery
  /\ UNCHANGED <<now, lastPoll, lastCheck, observed, gen, wake, queued, began, dbqr,
                 changes, after, table, wasted>>

\* SELECT 1 ... WHERE column > lastCheckTime.
DetectChanges ==
  /\ pc = "decide" /\ ~ForceFull /\ ~NotDue
  /\ changes' = (stamp > dbqr.check)
  /\ pc' = "save"
  /\ UNCHANGED <<now, lastPoll, lastCheck, observed, gen, wake, queued, began, dbqr,
                 after, table, fullAt, used, wasted>>

\* LastChangeCheckTime is the time AFTER the query, saved at once; if that
\* write fails the copy keeps it for the deferred one.
SaveCheck ==
  /\ pc = "save"
  /\ dbqr' = [dbqr EXCEPT !.check = Stored(now)]
  /\ \/ lastCheck' = Stored(now) /\ UNCHANGED used
     \/ Fault("status") /\ UNCHANGED lastCheck
  /\ IF changes THEN ToQuery /\ UNCHANGED after
                ELSE ToWrite(Check) /\ UNCHANGED fullAt
  /\ UNCHANGED <<now, lastPoll, observed, gen, wake, queued, began, changes, table, wasted>>

\* No connection: retried after at most 30 s; a failed query: after Poll.
QueryFails ==
  /\ pc = "query"
  /\ Fault("query")
  /\ \E interval \in {Lesser(Poll, Retry), Poll} : ToWrite(interval)
  /\ excused' = excused + Poll + MaxPass
  /\ UNCHANGED <<now, lastPoll, lastCheck, observed, gen, wake, queued, began, dbqr,
                 changes, stamp, unread, calm, fullAt, wasted>>

QueryRead ==
  /\ pc = "query"
  /\ pc' = "apply"
  /\ unread' = 0 /\ calm' = TRUE
  /\ UNCHANGED <<now, lastPoll, lastCheck, observed, gen, wake, queued, began, dbqr,
                 changes, after, stamp, excused, fullAt, used, wasted>>

\* Rows or prunes failed: LastPollTime stays.
PassWithErrors ==
  /\ pc = "apply"
  /\ Fault("rows")
  /\ ToWrite(nextRequeueInterval)
  /\ UNCHANGED <<now, lastPoll, lastCheck, observed, gen, wake, queued, began, dbqr,
                 changes, table, fullAt, wasted>>

PassSucceeds ==
  /\ pc = "apply"
  /\ dbqr' = [dbqr EXCEPT !.poll = Stored(now)]
  /\ ToWrite(nextRequeueInterval)
  /\ UNCHANGED <<now, lastPoll, lastCheck, observed, gen, wake, queued, began,
                 changes, table, fullAt, used, wasted>>

\* Bug: no wake-up is asked for while one is still pending.
BugEndPass ==
  /\ pc' = "idle"
  /\ wake' = IF wake # 0 THEN 0 ELSE now + after
  /\ began' = 0 /\ dbqr' = NoPass /\ changes' = FALSE /\ after' = 0
  /\ UNCHANGED <<now, gen, queued, table, fullAt, wasted>>

\* The pass returns RequeueAfter; the work queue keeps the earliest time.
EndPass ==
  /\ pc' = "idle"
  /\ wake' = IF wake # 0 THEN Lesser(wake, now + after) ELSE now + after
  /\ began' = 0 /\ dbqr' = NoPass /\ changes' = FALSE /\ after' = 0
  /\ UNCHANGED <<now, gen, queued, table, fullAt, wasted>>

WriteStatus ==
  /\ pc = "write"
  /\ lastPoll' = dbqr.poll /\ lastCheck' = dbqr.check /\ observed' = dbqr.gen
  /\ EndPass
  /\ UNCHANGED used

WriteLost ==
  /\ pc = "write"
  /\ Fault("status")
  /\ EndPass
  /\ UNCHANGED <<lastPoll, lastCheck, observed>>

----------------------------------------------------------------------------
(* The environment *)

\* Time stands still while something is due, and a pass is not endless.
MayElapse ==
  /\ now < Horizon
  /\ IF pc = "idle" THEN ~queued /\ wake > now ELSE now < began + MaxPass

Tick ==
  /\ MayElapse
  /\ now' = now + 1
  /\ UNCHANGED <<lastPoll, lastCheck, observed, gen, wake, queued, pc, began, dbqr,
                 changes, after, table, fullAt, used, wasted>>

TableChanges ==
  /\ MayElapse
  /\ used.changes < MaxChanges
  /\ used' = [used EXCEPT !.changes = @ + 1]
  /\ now' = now + 1
  /\ \E t \in (now + 1 - Skew) .. (now + 1 + Skew) :
       /\ stamp' = Greater(stamp, t)
       /\ calm' = IF unread = 0 THEN pc = "idle" /\ t > now ELSE calm
  /\ unread' = IF unread = 0 THEN now + 1 ELSE unread
  /\ UNCHANGED <<lastPoll, lastCheck, observed, gen, wake, queued, pc, began, dbqr,
                 changes, after, excused, fullAt, wasted>>

TimerFires ==
  /\ wake # 0 /\ wake <= now
  /\ wake' = 0
  /\ queued' = TRUE
  /\ UNCHANGED <<now, lastPoll, lastCheck, observed, gen, pc, began, dbqr, changes,
                 after, table, fullAt, used, wasted>>

\* Something queues the request at once.
Woken ==
  /\ used.events < MaxEvents
  /\ used' = [used EXCEPT !.events = @ + 1]
  /\ queued' = TRUE
  /\ UNCHANGED <<now, lastPoll, lastCheck, observed, wake, pc, began, dbqr, changes,
                 after, table, fullAt, wasted>>

\* A watched child appears or goes.
WatchEvent == Woken /\ UNCHANGED gen

SpecEdit == Woken /\ gen' = gen + 1

\* The operator dies; its successor lists the CR and queues it.
Crash ==
  /\ Fault("crash")
  /\ pc' = "idle"
  /\ began' = 0 /\ dbqr' = NoPass /\ changes' = FALSE /\ after' = 0
  /\ wake' = 0
  /\ queued' = TRUE
  /\ wasted' = IF pc = "idle" THEN wasted ELSE wasted + (now - began)
  /\ UNCHANGED <<now, lastPoll, lastCheck, observed, gen, table, fullAt>>

Pass ==
  \/ Begin \/ DecideFull \/ DecideNotDue \/ DetectFails \/ DetectChanges
  \/ SaveCheck \/ QueryFails \/ QueryRead \/ PassWithErrors \/ PassSucceeds
  \/ WriteStatus \/ WriteLost

Environment ==
  \/ Tick \/ TableChanges \/ TimerFires \/ WatchEvent \/ SpecEdit \/ Crash

Next == Pass \/ Environment

Spec == Init /\ [][Next]_vars

----------------------------------------------------------------------------
(* Properties.  C is internal/controller/databasequeryresource_controller.go. *)

\* A pass may take MaxPass to decide, as may the two before it, and passes
\* that a crash cuts short come on top.
Slack == 3 * MaxPass + wasted

\* The schedule never dies: between passes the request is queued or a timer
\* will queue it, at most one interval away (all the RequeueAfter results).
WakePending ==
  pc = "idle" => \/ queued
                 \/ wake # 0 /\ wake <= now + (IF Poll < Check THEN Check ELSE Poll)

\* A full pass is decided at least every pollInterval PLUS changePollInterval,
\* whatever wakes the controller, fails or restarts (C:1182-1258).
FullPassInTime == now <= fullAt + Poll + (IF Enabled THEN Check ELSE 0) + Slack

\* No change of the table stays unread for longer than that, whatever its
\* timestamp says and whenever it appears: not one the detection query
\* misses because clocks differ, a commit is slow or a replica lags, not one
\* whose pass a crash cuts short; and each failed query puts it off by one
\* pollInterval at most (C:1238-1246, C:1305 against C:712-716).
ChangeReadInTime ==
  unread # 0 => now <= unread + Poll + (IF Enabled THEN Check ELSE 0) + Slack + excused

\* Change detection earns its keep: a change that appears between passes with
\* a timestamp of then is read within changePollInterval (README.md:405).
ChangeDetectedInTime ==
  Enabled /\ unread # 0 /\ calm /\ used.faults = 0 => now <= unread + Check + Slack
=============================================================================
