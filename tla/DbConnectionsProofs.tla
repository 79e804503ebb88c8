------------------------- MODULE DbConnectionsProofs -------------------------
(* What holds of the connections for every number of children, every limit *)
(* and every bound on what the surroundings do.                            *)
EXTENDS DbConnections, TLAPS

\* The states and steps of the model are well-typed.
LEMMA InitType == Init => TypeOK
BY ConnectionsAssumption DEF Init, TypeOK, Credentials, Children

LEMMA CloseType ==
  ASSUME TypeOK, NEW C, Close(C)
  PROVE  /\ open' \subseteq Clients \X Hosts
         /\ lost' \subseteq open' /\ prepared' \subseteq open'
BY DEF TypeOK, Close

LEMMA EndPassType ==
  ASSUME TypeOK, EndPass
  PROVE  /\ pc' = "idle" /\ config' \in Credentials
         /\ open' = {} /\ lost' = {} /\ prepared' = {}
         /\ at' \in 1..(N + 1)
         /\ got' \in [Children -> Nat] /\ told' \in [Children -> Nat]
         /\ noted' \in [Children -> Nat] /\ done' \subseteq Children
<1>1. open' = {}
  BY DEF TypeOK, EndPass, Close
<1>2. lost' = {} /\ prepared' = {}
  BY <1>1 DEF EndPass, Close
<1>3. at' \in 1..(N + 1)
  BY ConnectionsAssumption DEF EndPass
<1>4. noted' \in [Children -> Nat]
  BY DEF TypeOK, EndPass, Noted
<1> QED BY <1>1, <1>2, <1>3, <1>4 DEF TypeOK, EndPass, Credentials

\* A session that a client opens is one of its own.
LEMMA ConnectType ==
  ASSUME TypeOK, NEW c \in Clients, Connect(c)
  PROVE  /\ open' \subseteq Clients \X Hosts /\ open \subseteq open'
         /\ lost' \subseteq open' /\ prepared' \subseteq open'
         /\ used' = used
<1>1. PICK hosts \in {{"primary"}} \cup (IF Replica THEN {Hosts} ELSE {}) :
        open' = open \cup {c} \X hosts
  BY DEF Connect
<1>2. hosts \subseteq Hosts
  BY <1>1 DEF Hosts
<1> QED BY <1>1, <1>2 DEF TypeOK, Connect

UsedType == [touches : Nat, secrets : Nat, faults : Nat]

LEMMA FaultType ==
  ASSUME used \in UsedType, Fault
  PROVE  used' \in UsedType
BY DEF Fault, UsedType

LEMMA RunsType ==
  ASSUME used \in UsedType, NEW s, NEW creds,
         Runs(s) \/ Breaks(s) \/ ConnectFails(creds)
  PROVE  used' \in UsedType
BY FaultType DEF Runs, Breaks, ConnectFails

LEMMA ProceedType ==
  ASSUME TypeOK, Proceed, at \in Children
  PROVE  at' \in 1..(N + 1) /\ pc' = "report"
BY ConnectionsAssumption DEF Proceed, Children

LEMMA ClientsType ==
  Main \in Clients /\ Detector \in Clients /\ \A k \in Children : k \in Clients
BY ConnectionsAssumption DEF Main, Detector, Clients, Children

----------------------------------------------------------------------------
(* The invariant.  While a statement is under way the loop is at a child,   *)
(* which keeps at in its range; the sessions of the query's client are held *)
(* while its statements run, which makes those prepared open ones.          *)

IInv ==
  /\ TypeOK
  /\ pc = "exec" => at \in Children
  /\ pc \in {"setup", "select"} => connWrite(Main) \in open
  /\ NothingHeldAtRest
  /\ SelectSeesSetup

LEMMA InitInv == Init => IInv
BY InitType DEF Init, IInv, NothingHeldAtRest, SelectSeesSetup

\* A pass that returns establishes the invariant whatever it was at.
LEMMA EndPassInv ==
  ASSUME IInv, EndPass, secret' \in Credentials, live' \in [Children -> Nat],
         used' \in UsedType
  PROVE  IInv'
<1>1. TypeOK'
  BY EndPassType DEF IInv, TypeOK, UsedType
<1>2. pc' = "idle" /\ open' = {}
  BY EndPassType DEF IInv
<1> QED BY <1>1, <1>2 DEF IInv, NothingHeldAtRest, SelectSeesSetup

\* Away from the query and from rest the invariant is a matter of types.
LEMMA ElsewhereInv ==
  ASSUME TypeOK', pc' \notin {"idle", "setup", "select", "exec"}
  PROVE  IInv'
BY DEF IInv, NothingHeldAtRest, SelectSeesSetup

LEMMA StartInv == ASSUME IInv, Start PROVE IInv'
<1>1. pc' \in {"connect", "check", "collect"}
  BY DEF Start
<1>2. TypeOK'
  BY <1>1 DEF IInv, TypeOK, Start, sessions, loop
<1> QED BY <1>1, <1>2, ElsewhereInv

LEMMA CheckConnectsInv == ASSUME IInv, CheckConnects PROVE IInv'
<1>1. TypeOK'
  BY ClientsType, ConnectType DEF IInv, TypeOK, CheckConnects, loop
<1> QED BY <1>1, ElsewhereInv DEF CheckConnects

LEMMA CheckFailsInv == ASSUME IInv, CheckFails PROVE IInv'
<1>1. /\ open' \subseteq Clients \X Hosts
      /\ lost' \subseteq open' /\ prepared' \subseteq open'
  <2>1. CASE ConnectFails(secret)
    BY <2>1 DEF IInv, TypeOK, ConnectFails, sessions
  <2>2. CASE Close({Detector})
    BY <2>2, CloseType DEF IInv
  <2> QED BY <2>1, <2>2 DEF CheckFails
<1>2. used' \in UsedType
  BY RunsType DEF IInv, TypeOK, UsedType, CheckFails
<1>3. TypeOK'
  BY <1>1, <1>2 DEF IInv, TypeOK, UsedType, CheckFails, loop
<1> QED BY <1>3, ElsewhereInv DEF CheckFails

LEMMA DetectsInv == ASSUME IInv, Detects PROVE IInv'
<1>1. /\ open' \subseteq Clients \X Hosts
      /\ lost' \subseteq open' /\ prepared' \subseteq open'
  BY CloseType DEF IInv, Detects
<1>2. used' = used
  BY DEF Detects, Runs
<1>3. TypeOK'
  BY <1>1, <1>2 DEF IInv, TypeOK, Detects, loop
<1> QED BY <1>3, ElsewhereInv DEF Detects

LEMMA MainConnectsInv == ASSUME IInv, MainConnects PROVE IInv'
<1>1. TypeOK'
  BY ClientsType, ConnectType DEF IInv, TypeOK, MainConnects, loop
<1>2. connWrite(Main) \in open'
  BY DEF MainConnects, Connect, connWrite, Hosts
<1>3. pc' = "setup"
  BY DEF MainConnects
<1> QED BY <1>1, <1>2, <1>3 DEF IInv, NothingHeldAtRest, SelectSeesSetup, connWrite

LEMMA MainFailsInv == ASSUME IInv, MainFails PROVE IInv'
<1>1. used' \in UsedType
  BY FaultType DEF IInv, TypeOK, UsedType, MainFails
<1> QED BY <1>1, EndPassInv DEF IInv, TypeOK, MainFails

\* Only this step leads to the select, on the session it prepared.
LEMMA SetupInv == ASSUME IInv, Setup PROVE IInv'
<1>1. connRead(Main) \in open
  BY DEF IInv, Setup, connRead, connWrite
<1>2. used' = used
  BY DEF Setup, Runs
<1>3. TypeOK'
  BY <1>1, <1>2 DEF IInv, TypeOK, Setup, loop
<1>4. connRead(Main)' = connRead(Main) /\ connWrite(Main)' = connWrite(Main)
  BY DEF Setup, connRead, connWrite
<1>5. SelectSeesSetup'
  BY <1>4 DEF SelectSeesSetup, Setup
<1>6. connWrite(Main)' \in open'
  BY <1>4 DEF IInv, Setup
<1> QED BY <1>3, <1>5, <1>6 DEF IInv, Setup, NothingHeldAtRest

LEMMA SelectInv == ASSUME IInv, Select PROVE IInv'
<1>1. TypeOK'
  BY DEF IInv, TypeOK, Select, Runs, sessions, loop
<1> QED BY <1>1, ElsewhereInv DEF Select

LEMMA QueryFailsInv == ASSUME IInv, QueryFails PROVE IInv'
<1>1. used' \in UsedType
  BY RunsType DEF IInv, TypeOK, UsedType, QueryFails
<1> QED BY <1>1, EndPassInv DEF IInv, TypeOK, QueryFails

LEMMA CollectInv == ASSUME IInv, Collect PROVE IInv'
<1>1. TypeOK'
  BY ConnectionsAssumption DEF IInv, TypeOK, Collect, sessions
<1> QED BY <1>1, ElsewhereInv DEF Collect

LEMMA CollectFailsInv == ASSUME IInv, CollectFails PROVE IInv'
BY EndPassInv DEF IInv, TypeOK, UsedType, CollectFails

LEMMA ReportSkipsInv == ASSUME IInv, ReportSkips PROVE IInv'
<1>1. at' \in 1..(N + 1) /\ pc' = "report"
  BY ProceedType DEF IInv, ReportSkips
<1>2. TypeOK'
  BY <1>1 DEF IInv, TypeOK, ReportSkips, sessions
<1> QED BY <1>1, <1>2, ElsewhereInv

LEMMA ReportConnectsInv == ASSUME IInv, ReportConnects PROVE IInv'
<1>1. TypeOK'
  BY ClientsType, ConnectType DEF IInv, TypeOK, ReportConnects, loop
<1>2. pc' = "exec" /\ at' \in Children
  BY DEF ReportConnects, loop
<1> QED BY <1>1, <1>2 DEF IInv, NothingHeldAtRest, SelectSeesSetup

LEMMA ReportFailsInv == ASSUME IInv, ReportFails PROVE IInv'
<1>1. at' \in 1..(N + 1) /\ pc' = "report"
  BY ProceedType DEF IInv, ReportFails
<1>2. used' \in UsedType
  BY RunsType DEF IInv, TypeOK, UsedType, ReportFails
<1>3. TypeOK'
  BY <1>1, <1>2 DEF IInv, TypeOK, UsedType, ReportFails, ConnectFails, sessions
<1> QED BY <1>1, <1>3, ElsewhereInv

LEMMA ExecInv == ASSUME IInv, Exec PROVE IInv'
<1>1. at' \in 1..(N + 1) /\ pc' = "report"
  BY ProceedType DEF IInv, Exec
<1>2. told' \in [Children -> Nat] /\ done' \subseteq Children /\ used' = used
  BY DEF IInv, TypeOK, Exec, Runs
<1>3. TypeOK'
  BY <1>1, <1>2 DEF IInv, TypeOK, Exec, sessions
<1> QED BY <1>1, <1>3, ElsewhereInv

LEMMA ExecFailsInv == ASSUME IInv, ExecFails PROVE IInv'
<1>1. at' \in 1..(N + 1) /\ pc' = "report"
  BY ProceedType DEF IInv, ExecFails
<1>2. used' \in UsedType
  BY RunsType DEF IInv, TypeOK, UsedType, ExecFails
<1>3. TypeOK'
  BY <1>1, <1>2 DEF IInv, TypeOK, UsedType, ExecFails, sessions
<1> QED BY <1>1, <1>3, ElsewhereInv

LEMMA ExecUnansweredInv == ASSUME IInv, ExecUnanswered PROVE IInv'
<1>1. at' \in 1..(N + 1) /\ pc' = "report"
  BY ProceedType DEF IInv, ExecUnanswered
<1>2. told' \in [Children -> Nat]
  BY DEF IInv, TypeOK, ExecUnanswered
<1>3. used' \in UsedType
  BY FaultType DEF IInv, TypeOK, UsedType, ExecUnanswered
<1>4. TypeOK'
  BY <1>1, <1>2, <1>3 DEF IInv, TypeOK, UsedType, ExecUnanswered, sessions
<1> QED BY <1>1, <1>4, ElsewhereInv

LEMMA PassEndsInv == ASSUME IInv, PassEnds PROVE IInv'
BY EndPassInv DEF IInv, TypeOK, UsedType, PassEnds

LEMMA PassInv == ASSUME IInv, Pass PROVE IInv'
BY StartInv, CheckConnectsInv, CheckFailsInv, DetectsInv, MainConnectsInv,
   MainFailsInv, SetupInv, SelectInv, QueryFailsInv, CollectInv,
   CollectFailsInv, ReportSkipsInv, ReportConnectsInv, ReportFailsInv,
   ExecInv, ExecFailsInv, ExecUnansweredInv, PassEndsInv DEF Pass

\* What leaves the pass and its sessions alone keeps what is said of them.
LEMMA SurroundingsInv ==
  ASSUME IInv, TypeOK', UNCHANGED <<pc, open, prepared, at>>
  PROVE  IInv'
BY DEF IInv, NothingHeldAtRest, SelectSeesSetup, connRead, connWrite

LEMMA TouchInv == ASSUME IInv, Touch PROVE IInv'
<1>1. live' \in [Children -> Nat]
  BY DEF IInv, TypeOK, Touch
<1>2. used' \in UsedType
  BY DEF IInv, TypeOK, UsedType, Touch
<1>3. TypeOK'
  BY <1>1, <1>2 DEF IInv, TypeOK, UsedType, Touch, sessions, loop
<1> QED BY <1>3, SurroundingsInv DEF Touch, sessions, loop

LEMMA SecretInv == ASSUME IInv, Rotate \/ BreakSecret \/ UpdateSecret PROVE IInv'
<1>1. used' \in UsedType
  BY DEF IInv, TypeOK, UsedType, Rotate, BreakSecret, UpdateSecret
<1>2. secret' \in Credentials /\ config' \in Credentials
  BY DEF IInv, TypeOK, Credentials, Rotate, BreakSecret, UpdateSecret
<1>3. TypeOK'
  BY <1>1, <1>2 DEF IInv, TypeOK, UsedType, Rotate, BreakSecret, UpdateSecret,
                    sessions, loop
<1> QED BY <1>3, SurroundingsInv DEF Rotate, BreakSecret, UpdateSecret, sessions, loop

LEMMA LoseSessionInv == ASSUME IInv, LoseSession PROVE IInv'
<1>1. used' \in UsedType
  BY FaultType DEF IInv, TypeOK, UsedType, LoseSession
<1>2. lost' \subseteq open'
  BY DEF IInv, TypeOK, LoseSession
<1>3. TypeOK'
  BY <1>1, <1>2 DEF IInv, TypeOK, UsedType, LoseSession, loop
<1> QED BY <1>3, SurroundingsInv DEF LoseSession, loop

LEMMA CrashInv == ASSUME IInv, Crash PROVE IInv'
<1>1. used' \in UsedType
  BY FaultType DEF IInv, TypeOK, UsedType, Crash
<1>2. pc' = "idle" /\ open' = {} /\ lost' = {} /\ prepared' = {}
  BY DEF IInv, TypeOK, Crash, Close
<1>3. TypeOK'
  BY <1>1, <1>2, ConnectionsAssumption
  DEF IInv, TypeOK, UsedType, Crash, Credentials
<1> QED BY <1>2, <1>3 DEF IInv, NothingHeldAtRest, SelectSeesSetup

LEMMA StutterInv == ASSUME IInv, UNCHANGED vars PROVE IInv'
<1>1. TypeOK'
  BY DEF IInv, TypeOK, vars, sessions, loop
<1> QED BY <1>1, SurroundingsInv DEF vars, sessions, loop

LEMMA NextInv == IInv /\ [Next]_vars => IInv'
BY PassInv, TouchInv, SecretInv, LoseSessionInv, CrashInv, StutterInv DEF Next

\* The invariant holds in every state of every execution.
THEOREM Invariant == Spec => []IInv
<1>1. Init => IInv
  BY InitInv
<1>2. IInv /\ [Next]_vars => IInv'
  BY NextInv
<1> QED BY <1>1, <1>2, PTL DEF Spec

\* However a pass ends - with a result, an error of any step, a crash - its
\* deferred Closes leave no session of any client behind.
THEOREM NothingHeld == Spec => []NothingHeldAtRest
<1>1. IInv => NothingHeldAtRest
  BY DEF IInv
<1> QED BY <1>1, Invariant, PTL

\* QueryRead reads the rows from the session on which it ran the setup
\* statements, with and without a replica.
THEOREM SetupSeen == Spec => []SelectSeesSetup
<1>1. IInv => SelectSeesSetup
  BY DEF IInv
<1> QED BY <1>1, Invariant, PTL

\* The sessions a client uses are always typed as the model declares them.
THEOREM TypeCorrect == Spec => []TypeOK
<1>1. IInv => TypeOK
  BY DEF IInv
<1> QED BY <1>1, Invariant, PTL

----------------------------------------------------------------------------
(* The ledger of what was written back.  A version only moves from the      *)
(* child to the pass, from there to the database and into ResourceVersions; *)
(* what the pass alone knows is what it has just written.                   *)

LedgerInv ==
  /\ \A k \in Children : /\ noted[k] <= told[k] /\ told[k] <= got[k]
                          /\ got[k] <= live[k]
  /\ \A k \in done : told[k] = got[k]
  /\ done # {} => pc \in {"report", "exec"}

LEMMA LedgerInit == Init => LedgerInv /\ Ledger!Init
BY DEF Init, LedgerInv, Ledger!Init

\* What the pass and the database exchange while the children are left alone.
LEMMA LedgerReport ==
  ASSUME TypeOK, TypeOK', LedgerInv, UNCHANGED live,
         \A k \in Children : /\ told[k] <= told'[k] /\ told'[k] <= got[k]
                             /\ noted'[k] <= told'[k]
  PROVE  Ledger!Report
<1>1. \A k \in Children : /\ told'[k] \in Nat /\ got[k] \in Nat /\ live[k] \in Nat
  BY DEF TypeOK
<1>2. \A k \in Children : told'[k] <= live[k]
  BY <1>1 DEF LedgerInv
<1> QED BY <1>2 DEF TypeOK, Ledger!Report

\* A pass that ends hands what it has written to the stored status.
LEMMA LedgerEndPass ==
  ASSUME TypeOK, TypeOK', LedgerInv, EndPass, UNCHANGED live
  PROVE  LedgerInv' /\ Ledger!Report
<1>1. \A k \in Children : /\ told[k] \in Nat /\ got[k] \in Nat /\ noted[k] \in Nat
  BY DEF TypeOK
<1>2. UNCHANGED <<told, got>> /\ done' = {} /\ noted' = Noted
  BY DEF EndPass
<1>3. \A k \in Children : noted'[k] <= told[k]
  BY <1>1, <1>2 DEF LedgerInv, Noted
<1> QED BY <1>1, <1>2, <1>3, LedgerReport DEF LedgerInv

\* Every other step leaves the ledger as it is or adds to it.
LEMMA LedgerStep ==
  ASSUME IInv, IInv', LedgerInv, [Next]_vars
  PROVE  LedgerInv' /\ [Ledger!Next]_(Ledger!ledger)
<1> USE DEF Ledger!ledger, Ledger!Next
<1>a. TypeOK /\ TypeOK'
  BY DEF IInv
<1>b. \A k \in Children : /\ told[k] \in Nat /\ got[k] \in Nat /\ noted[k] \in Nat
                          /\ live[k] \in Nat
  BY <1>a DEF TypeOK
<1>1. CASE \/ Start \/ CheckConnects \/ CheckFails \/ Detects \/ MainConnects
           \/ Setup \/ Select
  <2>1. UNCHANGED <<loop, live>> /\ pc \notin {"report", "exec"}
    BY <1>1 DEF Start, CheckConnects, CheckFails, Detects, MainConnects, Setup, Select
  <2> QED BY <2>1 DEF LedgerInv, loop
<1>2. CASE MainFails \/ QueryFails \/ CollectFails \/ PassEnds
  BY <1>a, <1>2, LedgerEndPass DEF MainFails, QueryFails, CollectFails, PassEnds
<1>3. CASE Collect
  BY <1>b, <1>3 DEF Collect, LedgerInv
<1>4. CASE ReportSkips \/ ReportConnects \/ ReportFails \/ ExecFails
  BY <1>4 DEF ReportSkips, ReportConnects, ReportFails, ExecFails, Proceed, LedgerInv,
              loop
<1>5. CASE Exec \/ ExecUnanswered
  <2>1. at \in Children
    BY <1>5 DEF IInv, Exec, ExecUnanswered
  <2>2. /\ told' = [told EXCEPT ![at] = got[at]] /\ done' \subseteq done \cup {at}
        /\ UNCHANGED <<got, noted, live>> /\ pc' = "report"
    BY <1>5 DEF Exec, ExecUnanswered, Proceed
  <2>3. \A k \in Children : told'[k] = IF k = at THEN got[k] ELSE told[k]
    BY <1>a, <2>1, <2>2 DEF TypeOK
  <2>4. \A k \in Children : /\ told[k] <= told'[k] /\ told'[k] <= got[k]
                            /\ noted'[k] <= told'[k]
    BY <1>b, <2>2, <2>3 DEF LedgerInv
  <2>5. \A k \in done' : told'[k] = got'[k]
    BY <1>a, <2>1, <2>2, <2>3 DEF LedgerInv, TypeOK
  <2> QED BY <1>a, <2>2, <2>4, <2>5, LedgerReport DEF LedgerInv
<1>6. CASE Touch
  <2>1. PICK k \in Children : live' = [live EXCEPT ![k] = @ + 1]
    BY <1>6 DEF Touch
  <2>2. \A j \in Children : live[j] <= live'[j]
    BY <1>a, <1>b, <2>1 DEF TypeOK
  <2>3. UNCHANGED <<pc, loop>>
    BY <1>6 DEF Touch
  <2>4. Ledger!Change
    BY <1>a, <2>2, <2>3 DEF Ledger!Change, TypeOK, loop
  <2>5. \A j \in Children : got[j] <= live'[j]
    BY <1>a, <1>b, <2>2 DEF LedgerInv, TypeOK
  <2> QED BY <2>3, <2>4, <2>5 DEF LedgerInv, loop
<1>7. CASE Rotate \/ BreakSecret \/ UpdateSecret \/ LoseSession \/ UNCHANGED vars
  BY <1>7 DEF Rotate, BreakSecret, UpdateSecret, LoseSession, LedgerInv, loop, vars
<1>8. CASE Crash
  BY <1>8 DEF Crash, LedgerInv
<1> QED BY <1>1, <1>2, <1>3, <1>4, <1>5, <1>6, <1>7, <1>8 DEF Next, Pass

\* The write-back loop, child by child and with sessions that fail and a
\* process that dies between its steps, implements the ledger: the database
\* only moves forward to versions the children had, and ResourceVersions
\* never has one that was not written back.
THEOREM WriteBackKeepsLedger == Spec => LedgerKept
<1>1. Init => LedgerInv /\ Ledger!Init
  BY LedgerInit
<1>2. IInv /\ IInv' /\ LedgerInv /\ [Next]_vars
        => LedgerInv' /\ [Ledger!Next]_(Ledger!ledger)
  BY LedgerStep
<1> QED BY <1>1, <1>2, Invariant, PTL DEF Spec, LedgerKept, Ledger!Spec
=============================================================================
