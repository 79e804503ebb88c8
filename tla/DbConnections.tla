---------------------------- MODULE DbConnections ----------------------------
(***************************************************************************)
(* The database connections of a controller's passes over one CR.  There   *)
(* is no pool: a pass opens a client for the change detection query, one   *)
(* for the query, and one for every child whose status it writes back; the *)
(* last are closed only when the write-back loop returns.  Each client is  *)
(* a session with the primary and, where the Secret names a replica that   *)
(* answers, one with the replica for the reads.                            *)
(*                                                                         *)
(* The database grants Limit sessions, drops them, and has its credentials *)
(* rotated; the children change under the pass.  What the query returns    *)
(* and what becomes of the rows is in module Reconcile.                    *)
(***************************************************************************)
EXTENDS Naturals, FiniteSets

CONSTANTS
  N,                \* children, 1..N in the order of Status.ManagedResources
  Failing,          \* children whose rendered status update is always refused
  Limit,            \* sessions the primary grants the operator
  Replica,          \* the Secret has a readonly_host
  ChangeDetection,  \* spec.changeDetection is set and enabled
  MaxTouches,       \* bound: changes of children
  MaxSecrets,       \* bound: credentials rotated, Secret broken
  MaxFaults         \* bound: refused or dropped sessions, failed queries, crashes

ASSUME ConnectionsAssumption ==
  /\ N \in Nat /\ Failing \subseteq 1..N
  /\ Limit \in Nat
  /\ Replica \in BOOLEAN /\ ChangeDetection \in BOOLEAN
  /\ MaxTouches \in Nat /\ MaxSecrets \in Nat /\ MaxFaults \in Nat

Children == 1..N
Main == 0                   \* the client of the query
Detector == N + 1           \* the client of the change detection query
Clients == 0..(N + 1)
Hosts == {"primary", "replica"}

VARIABLES
  pc,        \* where the pass is
  config,    \* the pass's dbConfig, seen from the database
  secret,    \* the Secret, likewise
  open,      \* the sessions that clients hold, <<client, host>>
  lost,      \* those of them that the database has dropped
  prepared,  \* the sessions on which the setup statements of the query ran
  at,        \* the child the write-back loop is at
  live,      \* version of each child
  got,       \* the version the pass collected
  told,      \* the version last written back to the database
  done,      \* the children this pass has written back, known to it alone
  noted,     \* the version in the ResourceVersions of the stored CR
  used       \* how much of each bound is spent

sessions == <<open, lost, prepared>>
loop     == <<at, got, told, done, noted>>
vars     == <<pc, config, secret, sessions, loop, live, used>>

\* Credentials: none to be had; refused by the database; accepted.
Credentials == {"unusable", "outdated", "current"}

TypeOK ==
  /\ pc \in {"idle", "check", "detect", "connect", "setup", "select",
             "collect", "report", "exec"}
  /\ config \in Credentials /\ secret \in Credentials
  /\ open \subseteq Clients \X Hosts /\ lost \subseteq open
  /\ prepared \subseteq open
  /\ at \in 1..(N + 1)
  /\ live \in [Children -> Nat] /\ got \in [Children -> Nat]
  /\ told \in [Children -> Nat] /\ noted \in [Children -> Nat]
  /\ done \subseteq Children
  /\ used \in [touches : Nat, secrets : Nat, faults : Nat]

Init ==
  /\ pc = "idle" /\ config = "unusable" /\ secret = "current"
  /\ open = {} /\ lost = {} /\ prepared = {}
  /\ at = 1
  /\ live = [k \in Children |-> 1]
  /\ got = [k \in Children |-> 0] /\ told = [k \in Children |-> 0]
  /\ noted = [k \in Children |-> 0] /\ done = {}
  /\ used = [touches |-> 0, secrets |-> 0, faults |-> 0]

----------------------------------------------------------------------------
(* The client *)

Fault ==
  /\ used.faults < MaxFaults
  /\ used' = [used EXCEPT !.faults = @ + 1]

\* The sessions that count against Limit.
Granted == {s \in open \ lost : s[2] = "primary"}

Connectable(credentials) == credentials = "current" /\ Cardinality(Granted) < Limit

\* Connect; a replica that does not answer leaves the reads to the primary.
Connect(c) ==
  /\ \E hosts \in {{"primary"}} \cup (IF Replica THEN {Hosts} ELSE {}) :
       open' = open \cup {c} \X hosts
  /\ UNCHANGED <<lost, prepared, used>>

\* Connect returns an error, a fault unless the database had to refuse.
ConnectFails(credentials) ==
  /\ IF Connectable(credentials) THEN Fault ELSE UNCHANGED used
  /\ UNCHANGED sessions

connWrite(c) == <<c, "primary">>
connRead(c) == IF <<c, "replica">> \in open THEN <<c, "replica">> ELSE connWrite(c)

\* A statement on session s succeeds, or fails: a fault unless s is lost.
Runs(s) == s \notin lost /\ UNCHANGED used
Breaks(s) == IF s \in lost THEN UNCHANGED used ELSE Fault

\* Bug: Close forgets the replica's session.
BugClose(C) ==
  /\ open' = {s \in open : s[1] \notin C \/ s[2] = "replica"}
  /\ lost' = lost \cap open'
  /\ prepared' = prepared \cap open'

\* Bug: a closed session is still taken for one with its setup done.
BugCloseKeeps(C) ==
  /\ open' = {s \in open : s[1] \notin C}
  /\ lost' = lost \cap open'
  /\ UNCHANGED prepared

\* Close, of the clients C
Close(C) ==
  /\ open' = {s \in open : s[1] \notin C}
  /\ lost' = lost \cap open'
  /\ prepared' = prepared \cap open'

\* Bug: what failed is remembered like what was written back.
BugNoted == got

\* ResourceVersions as the status write at the end of a pass stores it.
Noted == [k \in Children |-> IF k \in done THEN got[k] ELSE noted[k]]

\* The pass returns, which runs its deferred Closes and stores its status.
EndPass ==
  /\ pc' = "idle" /\ config' = "unusable"
  /\ Close(Clients)
  /\ at' = 1 /\ done' = {} /\ noted' = Noted
  /\ UNCHANGED <<got, told>>

----------------------------------------------------------------------------
(* The pass, up to the rows *)

\* What shouldReconcile decides is free; without change detection every pass
\* is a full one.
Start ==
  /\ pc = "idle"
  /\ pc' \in {"connect"} \cup (IF ChangeDetection THEN {"check", "collect"} ELSE {})
  /\ UNCHANGED <<config, secret, sessions, loop, live, used>>

\* detectChanges takes a configuration and a client of its own.  Any error
\* of it forces a full pass.
CheckConnects ==
  /\ pc = "check" /\ Connectable(secret)
  /\ Connect(Detector)
  /\ pc' = "detect"
  /\ UNCHANGED <<config, secret, loop, live>>

CheckFails ==
  /\ \/ pc = "check" /\ ConnectFails(secret)
     \/ pc = "detect" /\ Breaks(connRead(Detector)) /\ Close({Detector})
  /\ pc' = "connect"
  /\ UNCHANGED <<config, secret, loop, live>>

Detects ==
  /\ pc = "detect" /\ Runs(connRead(Detector))
  /\ Close({Detector})
  /\ pc' \in {"connect", "collect"}
  /\ UNCHANGED <<config, secret, loop, live>>

MainConnects ==
  /\ pc = "connect" /\ Connectable(secret)
  /\ Connect(Main)
  /\ config' = secret
  /\ pc' = "setup"
  /\ UNCHANGED <<secret, loop, live>>

\* SecretError, DBClientError
MainFails ==
  /\ pc = "connect"
  /\ IF Connectable(secret) THEN Fault ELSE UNCHANGED used
  /\ EndPass
  /\ UNCHANGED <<secret, live>>

\* Bug: the batch goes over the connection for writes.
BugSetup ==
  /\ pc = "setup" /\ Runs(connWrite(Main))
  /\ prepared' = prepared \cup {connWrite(Main)}
  /\ pc' = "select"
  /\ UNCHANGED <<config, secret, open, lost, loop, live>>

\* QueryRead: all statements but the last, as a batch ...
Setup ==
  /\ pc = "setup" /\ Runs(connRead(Main))
  /\ prepared' = prepared \cup {connRead(Main)}
  /\ pc' = "select"
  /\ UNCHANGED <<config, secret, open, lost, loop, live>>

\* ... then the last one, whose rows are the result.
Select ==
  /\ pc = "select" /\ Runs(connRead(Main))
  /\ pc' = "collect"
  /\ UNCHANGED <<config, secret, sessions, loop, live>>

QueryFails ==
  /\ pc \in {"setup", "select"} /\ Breaks(connRead(Main))
  /\ EndPass
  /\ UNCHANGED <<secret, live>>

----------------------------------------------------------------------------
(* The pass, writing back the children's status *)

\* The children are fetched; a pass that skips takes its configuration now.
Collect ==
  /\ pc = "collect"
  /\ pc' = "report" /\ got' = live /\ at' = 1
  /\ config' = IF config = "unusable" THEN secret ELSE config
  /\ config' # "unusable"
  /\ UNCHANGED <<secret, sessions, told, done, noted, live, used>>

CollectFails ==
  /\ pc = "collect" /\ config = "unusable" /\ secret = "unusable"
  /\ EndPass
  /\ UNCHANGED <<secret, live, used>>

\* Bug: the version is not looked at.
BugDue(k) == TRUE

\* The child has a version that is not remembered as written back.
Due(k) == noted[k] # got[k]

Proceed == pc' = "report" /\ at' = at + 1

ReportSkips ==
  /\ pc = "report" /\ at \in Children /\ ~Due(at)
  /\ Proceed
  /\ UNCHANGED <<config, secret, sessions, got, told, done, noted, live, used>>

ReportConnects ==
  /\ pc = "report" /\ at \in Children /\ Due(at) /\ Connectable(config)
  /\ Connect(at)
  /\ pc' = "exec"
  /\ UNCHANGED <<config, secret, loop, live>>

\* The error is logged and the loop goes on.
ReportFails ==
  /\ pc = "report" /\ at \in Children /\ Due(at)
  /\ ConnectFails(config)
  /\ Proceed
  /\ UNCHANGED <<config, secret, got, told, done, noted, live>>

Exec ==
  /\ pc = "exec" /\ at \notin Failing /\ Runs(connWrite(at))
  /\ told' = [told EXCEPT ![at] = got[at]]
  /\ done' = done \cup {at}
  /\ Proceed
  /\ UNCHANGED <<config, secret, sessions, got, noted, live>>

ExecFails ==
  /\ pc = "exec"
  /\ IF at \in Failing THEN UNCHANGED used ELSE Breaks(connWrite(at))
  /\ Proceed
  /\ UNCHANGED <<config, secret, sessions, got, told, done, noted, live>>

\* The update takes effect but its answer is lost: to the pass it has failed.
ExecUnanswered ==
  /\ pc = "exec" /\ at \notin Failing
  /\ connWrite(at) \notin lost /\ Fault
  /\ told' = [told EXCEPT ![at] = got[at]]
  /\ Proceed
  /\ UNCHANGED <<config, secret, sessions, got, done, noted, live>>

PassEnds ==
  /\ pc = "report" /\ at \notin Children
  /\ EndPass
  /\ UNCHANGED <<secret, live, used>>

Pass ==
  \/ Start
  \/ CheckConnects \/ CheckFails \/ Detects
  \/ MainConnects \/ MainFails
  \/ Setup \/ Select \/ QueryFails
  \/ Collect \/ CollectFails
  \/ ReportSkips \/ ReportConnects \/ ReportFails \/ Exec \/ ExecFails
  \/ ExecUnanswered \/ PassEnds

----------------------------------------------------------------------------
(* The surroundings *)

Touch ==
  /\ used.touches < MaxTouches
  /\ used' = [used EXCEPT !.touches = @ + 1]
  /\ \E k \in Children : live' = [live EXCEPT ![k] = @ + 1]
  /\ UNCHANGED <<pc, config, secret, sessions, loop>>

\* The database's credentials change: the Secret and a pass that has read it
\* are left with the old ones.  Sessions stay.
Rotate ==
  /\ used.secrets < MaxSecrets
  /\ used' = [used EXCEPT !.secrets = @ + 1]
  /\ secret' = IF secret = "current" THEN "outdated" ELSE secret
  /\ config' = IF config = "current" THEN "outdated" ELSE config
  /\ UNCHANGED <<pc, sessions, loop, live>>

\* The Secret is deleted, or loses a key.
BreakSecret ==
  /\ used.secrets < MaxSecrets
  /\ used' = [used EXCEPT !.secrets = @ + 1]
  /\ secret' = "unusable"
  /\ UNCHANGED <<pc, config, sessions, loop, live>>

UpdateSecret ==
  /\ secret # "current"
  /\ secret' = "current"
  /\ UNCHANGED <<pc, config, sessions, loop, live, used>>

\* The database ends a session, or a connection breaks.
LoseSession ==
  /\ Fault
  /\ \E s \in open \ lost : lost' = lost \cup {s}
  /\ UNCHANGED <<pc, config, secret, open, prepared, loop, live>>

\* The process dies, and what the pass had not stored is forgotten.  A status
\* write that is given up looks the same from here.
Crash ==
  /\ pc # "idle" /\ Fault
  /\ pc' = "idle" /\ config' = "unusable"
  /\ Close(Clients)
  /\ at' = 1 /\ done' = {}
  /\ UNCHANGED <<secret, got, told, noted, live>>

Next ==
  \/ Pass
  \/ Touch \/ Rotate \/ BreakSecret \/ UpdateSecret \/ LoseSession \/ Crash

Spec == Init /\ [][Next]_vars

\* The pass goes on, and the work queue starts the next one.
FairSpec == Spec /\ WF_vars(Pass)

----------------------------------------------------------------------------
(* Properties *)

\* Between passes the operator holds no session, whichever way a pass ended.
NothingHeldAtRest == pc = "idle" => open = {}

\* The rows of a full pass come from the session its setup statements ran
\* on, also if a replica is in use, lags behind or breaks down.
SelectSeesSetup == pc = "select" => connRead(Main) \in prepared

\* Children change while their updates are on the way one by one, updates
\* fail, and the process may die between an update and the status write that
\* remembers it; the ledger of module StatusLedger is kept all the same
\* (updateStatusForChildResources).
Ledger == INSTANCE StatusLedger
            WITH Keys <- Children, version <- live, reported <- told,
                 remembered <- noted
LedgerKept == Ledger!Spec

\* Every child whose update the database accepts is written back in its last
\* version once the Secret stays right, although children share what sessions
\* there are with the query and with children whose updates are refused and
\* which hold theirs to the end of the loop.
EventuallyReported ==
  \A k \in Children \ Failing :
    <>[](secret = "current") => <>[](told[k] = live[k])
=============================================================================
