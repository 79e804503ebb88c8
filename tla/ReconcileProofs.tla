-------------------------- MODULE ReconcileProofs --------------------------
(***************************************************************************)
(* What holds of a reconcile pass for every set of keys and values, every  *)
(* bound and every combination of faults: the types; that the finalizer is *)
(* removed only when the stored ManagedResources is gone or going; that a  *)
(* pass which drops a child it could not delete is no success; that a      *)
(* published success speaks of the generation it names; that no child      *)
(* version is remembered before the database has it; and that no CR is     *)
(* left parked.                                                            *)
(***************************************************************************)
EXTENDS Reconcile, TLAPS

----------------------------------------------------------------------------
(* Types of the records and of the building blocks *)

\* The record of a pass that holds no CR, and of a query not yet run, is typed.
LEMMA NoCRType == NoCR \in CRType /\ NoRows \in [Keys -> Vals \cup {None}]
<1>1. NoStatus \in StatusType
  BY DEF NoStatus, StatusType, Reasons
<1>2. NoCR \in CRType
  BY <1>1 DEF NoCR, CRType, SpecKinds
<1> QED BY <1>2 DEF NoRows

\* The parts of a CR have the types of the record.
LEMMA CRParts ==
  ASSUME NEW c \in CRType
  PROVE  /\ c.status \in StatusType
         /\ c.gen \in Nat /\ c.exists \in BOOLEAN
         /\ c.status.managed \subseteq Keys
         /\ c.status.versions \in [Keys -> Nat]
         /\ c.status.obsGen \in Nat
BY DEF CRType, StatusType

\* Replacing the status of a CR leaves a CR.
LEMMA CRWithStatus ==
  ASSUME NEW c \in CRType, NEW s \in StatusType
  PROVE  [c EXCEPT !.status = s] \in CRType
BY DEF CRType

\* So does setting a condition,
LEMMA CRWithReason ==
  ASSUME NEW c \in CRType, NEW r \in Reasons
  PROVE  [c EXCEPT !.status.reason = r] \in CRType
BY DEF CRType, StatusType

\* and so does dropping an entry of ResourceVersions.
LEMMA CRWithVersion ==
  ASSUME NEW c \in CRType, NEW k \in Keys
  PROVE  [c EXCEPT !.status.versions[k] = 0] \in CRType
BY DEF CRType, StatusType

\* A pass that returns leaves every variable of the pass typed.
LEMMA EndPassType ==
  ASSUME NEW b \in BOOLEAN, timer \in BOOLEAN, EndPass(b)
  PROVE  /\ pc' \in PCs /\ dbqr' \in CRType /\ cur' \in BOOLEAN
         /\ results' \in [Keys -> Vals \cup {None}]
         /\ todo' = {} /\ keys' \subseteq Keys /\ doomed' \subseteq Keys
         /\ errs' \in BOOLEAN /\ dirty' \in BOOLEAN /\ requeue' \in BOOLEAN
         /\ tries' \in Nat /\ timer' \in BOOLEAN
BY NoCRType DEF EndPass, PCs

\* Counting a fault keeps the counters counters.
LEMMA FaultType ==
  ASSUME TypeOK, NEW f, Fault(f) \/ UNCHANGED used
  PROVE  used' \in [edits : Nat, touches : Nat, faults : Nat]
BY DEF TypeOK, Fault

\* A user's edit of the spec leaves a CR,
LEMMA CREdited ==
  ASSUME NEW c \in CRType, NEW s \in SpecKinds
  PROVE  [c EXCEPT !.gen = @ + 1, !.spec = s] \in CRType
<1>1. c.gen + 1 \in Nat
  BY DEF CRType
<1> QED
  BY <1>1 DEF CRType

\* so does the deletion request,
LEMMA CRDeleted ==
  ASSUME NEW c \in CRType
  PROVE  [c EXCEPT !.del = TRUE, !.exists = c.fin] \in CRType
BY DEF CRType

\* and so does the removal of the finalizer.
LEMMA CRReleased ==
  ASSUME NEW c \in CRType
  PROVE  [c EXCEPT !.fin = FALSE, !.exists = FALSE] \in CRType
BY DEF CRType

\* The status the deferred write builds is a status.
LEMMA DesiredStatusType == dbqr \in CRType => DesiredStatus \in StatusType
BY DEF CRType, StatusType, DesiredStatus

\* So is the one a full pass leaves in its copy.
LEMMA PassStatusType ==
  ASSUME TypeOK, NEW S \in SUBSET Keys
  PROVE  PassStatus(S) \in StatusType
<1> DEFINE vs == [k \in Keys |->
                    IF k \in keys THEN RecordVersions(dbqr.status.versions, S)[k] ELSE 0]
<1>1. vs \in [Keys -> Nat]
  BY CRParts DEF RecordVersions, TypeOK
<1>2. dbqr.status \in StatusType
  BY DEF TypeOK, CRType
<1> HIDE DEF vs
<1>3. [dbqr.status EXCEPT !.managed = keys, !.versions = vs,
                          !.polled = @ \/ ~errs,
                          !.reason = IF errs THEN "ProcessingError" ELSE "Success"]
        \in StatusType
  BY <1>1, <1>2 DEF TypeOK, StatusType, Reasons
<1> QED
  BY <1>3 DEF PassStatus, vs

\* The events of a child leave a Boolean in the queue.
LEMMA UpdateEventType ==
  ASSUME NEW k, queued \in BOOLEAN, ChildUpdateEvent(k) \/ ChildEvent(k)
  PROVE  queued' \in BOOLEAN
<1>1. (queued \/ k \in Watched) \in BOOLEAN
  BY Zenon
<1>2. queued' = queued \/ queued' = (queued \/ k \in Watched)
  BY DEF ChildUpdateEvent, ChildEvent
<1> QED
  BY <1>1, <1>2, Zenon

\* What a step does that makes no child and leaves each as it is or less.
ChildrenType == [Keys -> [val : Rendered \cup {None}, ver : Nat, going : BOOLEAN]]

Shrunk ==
  /\ children' \in ChildrenType
  /\ queued' \in BOOLEAN /\ (queued => queued')
  /\ \A j \in Keys : /\ Exists(j)' => Exists(j) /\ children'[j].val = children[j].val
                     /\ Kept(j)' => Kept(j)
                     /\ children'[j].ver >= children[j].ver

\* An accepted deletion and the end of a child that was going are such steps,
\* and the child is not kept after them.
LEMMA DeleteShrinks ==
  ASSUME TypeOK, NEW k \in Keys, Delete(k) \/ ChildGone(k)
  PROVE  Shrunk /\ ~Kept(k)'
<1>1. children \in ChildrenType /\ queued \in BOOLEAN
  BY DEF TypeOK, ChildrenType
<1>2. \A j \in Keys : children[j].ver \in Nat
  BY <1>1 DEF ChildrenType
<1>3. ChildEvent(k) => queued' \in BOOLEAN /\ (queued => queued')
  BY <1>1, UpdateEventType DEF ChildEvent
<1>4. CASE UNCHANGED <<children, queued>> /\ ~Kept(k)
  BY <1>1, <1>2, <1>4 DEF Shrunk, Kept, Exists
<1>5. CASE /\ children' = [children EXCEPT ![k].going = TRUE, ![k].ver = @ + 1]
           /\ UNCHANGED queued
  <2>1. /\ children'[k].val = children[k].val /\ children'[k].going
        /\ children'[k].ver = children[k].ver + 1
        /\ \A j \in Keys : j # k => children'[j] = children[j]
        /\ children' \in ChildrenType
    BY <1>1, <1>2, <1>5 DEF ChildrenType
  <2>2. ~Kept(k)'
    BY <2>1 DEF Kept
  <2>3. \A j \in Keys : /\ Exists(j)' => Exists(j) /\ children'[j].val = children[j].val
                        /\ children'[j].ver >= children[j].ver
    BY <1>2, <2>1 DEF Exists
  <2>4. \A j \in Keys : Kept(j)' => Kept(j)
    BY <2>1, <2>2 DEF Kept, Exists
  <2> QED
    BY <1>1, <1>5, <2>1, <2>2, <2>3, <2>4 DEF Shrunk
<1>6. CASE /\ \/ children' = [children EXCEPT ![k].val = None]
              \/ children' = [children EXCEPT ![k].val = None, ![k].going = FALSE]
           /\ ChildEvent(k)
  <2>1. /\ children'[k].val = None
        /\ children'[k].ver = children[k].ver
        /\ \A j \in Keys : j # k => children'[j] = children[j]
        /\ children' \in ChildrenType
    BY <1>1, <1>2, <1>6 DEF ChildrenType
  <2> QED
    BY <1>1, <1>2, <1>3, <1>6, <2>1 DEF Shrunk, Kept, Exists
<1> QED
  BY <1>4, <1>5, <1>6 DEF Delete, ChildGone

----------------------------------------------------------------------------
(* Type correctness *)

\* A CR first seen is typed.
LEMMA TypeInit == Init => TypeOK
<1> SUFFICES ASSUME Init PROVE TypeOK
  OBVIOUS
<1>1. PICK f \in BOOLEAN, s \in Specs :
        cr = [NoCR EXCEPT !.exists = TRUE, !.gen = 1, !.fin = f, !.spec = s]
  BY DEF Init
<1>2. cr \in CRType
  BY <1>1, NoCRType, ConstantsAssumption DEF CRType
<1> QED
  BY <1>2, NoCRType DEF Init, TypeOK, PCs

\* Every step preserves the types.
LEMMA TypeStep == TypeOK /\ [Next]_vars => TypeOK'
<1> SUFFICES ASSUME TypeOK, [Next]_vars PROVE TypeOK'
  OBVIOUS
<1>1. CASE ReconcileGone
  BY <1>1, EndPassType
  DEF ReconcileGone, Dequeue, TypeOK, apiVars, crVars, qVars
<1>2. CASE ReconcileDeleted
  <2>1. PICK missed \in SUBSET {k \in cache.status.managed : Exists(k)} :
          /\ FailedGets({k \in cache.status.managed : Exists(k)}, missed)
          /\ doomed' = {k \in cache.status.managed : Exists(k)} \ missed
    BY <1>2 DEF ReconcileDeleted
  <2>2. used' \in [edits : Nat, touches : Nat, faults : Nat]
    BY <2>1, FaultType DEF FailedGets
  <2>3. doomed' \subseteq Keys
    BY <2>1, CRParts DEF TypeOK
  <2> QED
    BY <1>2, <2>2, <2>3 DEF ReconcileDeleted, Dequeue, PCs, TypeOK, apiVars, crVars
<1>3. CASE ReconcileInvalid
  BY <1>3, CRWithReason
  DEF ReconcileInvalid, Dequeue, ToDefer, PCs, Reasons, TypeOK, apiVars,
        crVars, qVars
<1>4. CASE ReconcileBegin
  BY <1>4
  DEF ReconcileBegin, Dequeue, PCs, TypeOK, apiVars, crVars, qVars
<1>5. CASE RemoveFinalizer
  BY <1>5, EndPassType, CRReleased
  DEF RemoveFinalizer, TypeOK, apiVars, crVars, qVars
<1>6. CASE RemoveFinalizerFails
  BY <1>6, EndPassType
  DEF RemoveFinalizerFails, TypeOK, apiVars, crVars, qVars
<1>7. CASE DecideFull
  BY <1>7
  DEF DecideFull, PCs, TypeOK, apiVars, crVars, qVars
<1>8. CASE DecideElapsed
  BY <1>8
  DEF DecideElapsed, PCs, TypeOK, apiVars, crVars, qVars
<1>9. CASE DecideNotDue
  BY <1>9
  DEF DecideNotDue, PCs, TypeOK, apiVars, crVars, qVars
<1>10. CASE DecideDetected
  BY <1>10, CRParts, CRWithStatus
  DEF DecideDetected, StatusUpdateDbqr, PCs, TypeOK, apiVars, crVars, qVars
<1>11. CASE TemplateInvalid
  BY <1>11, CRWithReason
  DEF TemplateInvalid, ToDefer, PCs, Reasons, TypeOK, apiVars, crVars, qVars
<1>12. CASE QueryRead
  BY <1>12
  DEF QueryRead, PCs, TypeOK, apiVars, crVars, qVars
<1>13. CASE CollectStale
  BY <1>13, CRParts
  DEF CollectStale, FailedGets, Fault, PCs, TypeOK, apiVars, crVars, qVars
<1>14. CASE DeferSkip
  BY <1>14, EndPassType
  DEF DeferSkip, TypeOK, apiVars, crVars, qVars
<1>15. CASE DeferWrite
  BY <1>15, EndPassType, CRWithStatus, DesiredStatusType
  DEF DeferWrite, TypeOK, apiVars, crVars, qVars
<1>16. CASE DeferConflict
  BY <1>16
  DEF DeferConflict, PCs, TypeOK, apiVars, crVars, qVars
<1>17. CASE DeferGiveUp
  BY <1>17, EndPassType, FaultType
  DEF DeferGiveUp, TypeOK, apiVars, crVars, qVars
<1>18. CASE CleanupFails
  BY <1>18, EndPassType, FaultType
  DEF CleanupFails, TypeOK, apiVars, crVars, qVars
<1>19. CASE QueryFails
  BY <1>19, CRWithReason, FaultType
  DEF QueryFails, ToDefer, PCs, Reasons, TypeOK, apiVars, crVars, qVars
<1>20. CASE CacheSync
  BY <1>20
  DEF CacheSync, passVars, TypeOK, apiVars, crVars, qVars
<1>21. CASE TimerFires
  BY <1>21
  DEF TimerFires, passVars, TypeOK, apiVars, crVars, qVars
<1>22. CASE Crash
  BY <1>22, NoCRType, FaultType
  DEF Crash, PCs, CRType, TypeOK, apiVars, crVars, qVars
<1>23. CASE UserDelete
  BY <1>23, CRDeleted
  DEF UserDelete, TypeOK, apiVars, crVars, qVars
<1>24. CASE SkipSync
  <2>1. PICK S \in SUBSET Unreported(dbqr) :
          /\ Reported(S)
          /\ \/ UNCHANGED <<dbqr, cr, cacheFresh, dirty>>
             \/ StatusUpdateDbqr(SkipStatus(S))
    BY <1>24 DEF SkipSync
  <2>2. reported' \in [Keys -> Nat] /\ used' \in [edits : Nat, touches : Nat, faults : Nat]
    BY <2>1, FaultType DEF Reported, TypeOK
  <2>3. SkipStatus(S) \in StatusType
    <3>1. RecordVersions(dbqr.status.versions, S) \in [Keys -> Nat]
      BY CRParts DEF RecordVersions, TypeOK
    <3> QED
      BY <3>1, CRParts DEF TypeOK, SkipStatus, StatusType, Reasons
  <2>4. dbqr' \in CRType /\ cr' \in CRType /\ cacheFresh' \in BOOLEAN /\ dirty' \in BOOLEAN
    <3>1. /\ [dbqr EXCEPT !.status = SkipStatus(S)] \in CRType
          /\ [cr EXCEPT !.status = SkipStatus(S)] \in CRType
      BY <2>3, CRWithStatus DEF TypeOK
    <3> QED
      BY <2>1, <3>1 DEF StatusUpdateDbqr, TypeOK
  <2> QED
    BY <1>24, <2>2, <2>4 DEF SkipSync, ToDefer, PCs, TypeOK, qVars
<1>25. CASE FinishFull
  <2>1. PICK S \in SUBSET Unreported(dbqr) :
          Reported(S) /\ dbqr' = [dbqr EXCEPT !.status = PassStatus(S)]
    BY <1>25 DEF FinishFull
  <2>2. reported' \in [Keys -> Nat] /\ used' \in [edits : Nat, touches : Nat, faults : Nat]
    BY <2>1, FaultType DEF Reported, TypeOK
  <2>3. PassStatus(S) \in StatusType
    BY PassStatusType, CRParts DEF TypeOK, Unreported
  <2>4. dbqr' \in CRType
    BY <2>1, <2>3, CRWithStatus DEF TypeOK
  <2> QED
    BY <1>25, <2>2, <2>4 DEF FinishFull, ToDefer, PCs, TypeOK, qVars, crVars
<1>26. ASSUME NEW k \in Keys, CleanupDelete(k) PROVE TypeOK'
  <2>1. Shrunk
    BY <1>26, DeleteShrinks DEF CleanupDelete
  <2> QED
    BY <1>26, <2>1 DEF CleanupDelete, Shrunk, ChildrenType, TypeOK, crVars
<1>27. ASSUME NEW k \in Keys, PruneDelete(k) PROVE TypeOK'
  <2>1. Shrunk
    BY <1>27, DeleteShrinks DEF PruneDelete
  <2> QED
    BY <1>27, <2>1, CRWithVersion DEF PruneDelete, Shrunk, ChildrenType, TypeOK, crVars
<1>28. ASSUME NEW k \in Keys, RenderFails(k) PROVE TypeOK'
  BY <1>28
  DEF RenderFails, SkipRow, TypeOK, apiVars, crVars, qVars
<1>29. ASSUME NEW k \in Keys, ApplyFails(k) PROVE TypeOK'
  BY <1>29, FaultType
  DEF ApplyFails, SkipRow, TypeOK, apiVars, crVars, qVars
<1>30. ASSUME NEW k \in Keys, PruneFails(k) PROVE TypeOK'
  BY <1>30, FaultType
  DEF PruneFails, TypeOK, apiVars, crVars, qVars
<1>31. ASSUME NEW k \in Keys, ChildTouch(k) PROVE TypeOK'
  <2>1. queued' \in BOOLEAN
    BY <1>31, UpdateEventType DEF ChildTouch, TypeOK
  <2> QED
    BY <1>31, <2>1 DEF ChildTouch, passVars, TypeOK, apiVars, crVars
<1>32. ASSUME NEW k \in Keys, ChildDelete(k) \/ ChildGone(k) PROVE TypeOK'
  <2>1. Shrunk
    BY <1>32, DeleteShrinks DEF ChildDelete
  <2> QED
    BY <1>32, <2>1
    DEF ChildDelete, ChildGone, Shrunk, ChildrenType, passVars, TypeOK, crVars
<1>33. ASSUME NEW k \in Keys, ApplyRow(k) PROVE TypeOK'
  <2>1. children' \in [Keys -> [val : Rendered \cup {None}, ver : Nat, going : BOOLEAN]]
    <3>1. Desired(k) \in Rendered \/ children' = children
      BY <1>33 DEF ApplyRow, Desired, Rendered, TypeOK, CRType
    <3> QED
      BY <1>33, <3>1 DEF ApplyRow, TypeOK
  <2>2. queued' \in BOOLEAN
    <3>1. \/ queued' = queued
          \/ ChildUpdateEvent(k)
          \/ ChildEvent(k)
      BY <1>33 DEF ApplyRow
    <3> QED
      BY <3>1, UpdateEventType DEF TypeOK
  <2> QED
    BY <1>33, <2>1, <2>2 DEF ApplyRow, TypeOK, crVars
<1>34. ASSUME NEW s \in Specs, SpecEdit(s) PROVE TypeOK'
  BY <1>34, CREdited, ConstantsAssumption
  DEF SpecEdit, TypeOK, apiVars, crVars, qVars
<1>35. ASSUME NEW k \in Keys, NEW v \in Vals \cup {None}, RowChange(k, v)
      PROVE  TypeOK'
  BY <1>35
  DEF RowChange, passVars, TypeOK, apiVars, crVars, qVars
<1>36. CASE UNCHANGED vars
  BY <1>36
  DEF vars, passVars, TypeOK, apiVars, crVars, qVars
<1> QED
  BY <1>1, <1>2, <1>3, <1>4, <1>5, <1>6, <1>7, <1>8, <1>9, <1>10, <1>11,
        <1>12, <1>13, <1>14, <1>15, <1>16, <1>17, <1>18, <1>19, <1>20,
        <1>21, <1>22, <1>23, <1>24, <1>25, <1>26, <1>27, <1>28, <1>29,
        <1>30, <1>31, <1>32, <1>33, <1>34, <1>35, <1>36
  DEF Next, Worker, WorkerFaults, Environment

\* Every variable keeps its type along every behaviour of a pass.
THEOREM TypeCorrect == Spec => []TypeOK
<1>1. Init => TypeOK
  BY TypeInit
<1>2. TypeOK /\ [Next]_vars => TypeOK'
  BY TypeStep
<1> QED
  BY <1>1, <1>2, PTL DEF Spec

----------------------------------------------------------------------------
(* Finalizer: what a cleanup pass knows *)

\* A fresh cache is a copy of the stored CR; a cleanup whose copy of the CR
\* is current works from the stored status; and while it runs, what is not gone
\* or going of its ManagedResources is still on its list (no Get failed).
CleanupInv ==
  /\ cacheFresh => cache = cr
  /\ pc = "cleanup" /\ cur => dbqr.status = cr.status
  /\ pc = "cleanup" => \A k \in dbqr.status.managed : Kept(k) => k \in doomed

\* No other step takes the finalizer away.
LEMMA OnlyRemoveFinalizer ==
  ASSUME TypeOK, [Next]_vars, cr.fin, ~cr'.fin
  PROVE  RemoveFinalizer
<1>1. ASSUME cr' = cr PROVE FALSE
  BY <1>1
<1>2. ASSUME NEW s, cr' = [cr EXCEPT !.status = s] PROVE FALSE
  BY <1>2 DEF TypeOK, CRType
<1>3. ASSUME NEW s, SpecEdit(s) PROVE FALSE
  BY <1>3 DEF SpecEdit, TypeOK, CRType
<1>4. ASSUME UserDelete PROVE FALSE
  BY <1>4 DEF UserDelete, TypeOK, CRType
<1>5. ASSUME DecideDetected \/ SkipSync \/ DeferWrite PROVE FALSE
  BY <1>1, <1>2, <1>5 DEF DecideDetected, SkipSync, DeferWrite, StatusUpdateDbqr
<1>6. ASSUME NEW k \in Keys,
             \/ CleanupDelete(k) \/ PruneDelete(k) \/ ApplyRow(k) \/ RenderFails(k)
             \/ ApplyFails(k) \/ PruneFails(k) \/ ChildTouch(k) \/ ChildDelete(k)
             \/ ChildGone(k)
      PROVE  FALSE
  BY <1>1, <1>6 DEF CleanupDelete, PruneDelete, ApplyRow, RenderFails, ApplyFails,
        PruneFails, ChildTouch, ChildDelete, ChildGone, SkipRow, crVars
<1>7. ASSUME NEW k, NEW v, RowChange(k, v) PROVE FALSE
  BY <1>1, <1>7 DEF RowChange, crVars
<1>8. ASSUME \/ ReconcileGone \/ ReconcileDeleted \/ ReconcileInvalid
             \/ ReconcileBegin \/ RemoveFinalizerFails \/ DecideFull
             \/ DecideElapsed \/ DecideNotDue \/ TemplateInvalid \/ QueryRead
             \/ CollectStale \/ FinishFull \/ DeferSkip \/ DeferConflict
             \/ DeferGiveUp \/ CleanupFails \/ QueryFails \/ CacheSync
             \/ TimerFires \/ Crash \/ UNCHANGED vars
      PROVE  FALSE
  BY <1>1, <1>8 DEF ReconcileGone, ReconcileDeleted, ReconcileInvalid,
        ReconcileBegin, Dequeue, RemoveFinalizerFails, DecideFull,
        DecideElapsed, DecideNotDue, TemplateInvalid, QueryRead, CollectStale,
        FinishFull, DeferSkip, DeferConflict, DeferGiveUp, CleanupFails,
        QueryFails, CacheSync, TimerFires, Crash, crVars, vars
<1> QED
  BY <1>3, <1>4, <1>5, <1>6, <1>7, <1>8 DEF Next, Worker, WorkerFaults, Environment

\* Every step preserves CleanupInv, unless a Get of a child can fail.
LEMMA CleanupStep ==
  ASSUME "getFault" \notin Faults, TypeOK, CleanupInv, [Next]_vars
  PROVE  CleanupInv'
<1>1. CASE \/ ReconcileGone \/ RemoveFinalizerFails \/ CleanupFails
           \/ DeferSkip \/ DeferGiveUp
  BY <1>1 DEF ReconcileGone, RemoveFinalizerFails, CleanupFails, DeferSkip,
        DeferGiveUp, Dequeue, EndPass, CleanupInv, crVars
<1>2. CASE ReconcileDeleted
  <2>1. doomed' = {k \in cache.status.managed : Exists(k)}
    BY <1>2 DEF ReconcileDeleted, FailedGets, Fault
  <2> QED
    BY <1>2, <2>1 DEF ReconcileDeleted, Dequeue, CleanupInv, crVars, apiVars, Exists, Kept
<1>3. CASE ReconcileInvalid \/ ReconcileBegin
  BY <1>3 DEF ReconcileInvalid, ReconcileBegin, Dequeue, ToDefer, CleanupInv, crVars
<1>4. CASE RemoveFinalizer \/ DeferWrite
  BY <1>4 DEF RemoveFinalizer, DeferWrite, EndPass, CleanupInv
<1>5. CASE \/ DecideFull \/ DecideElapsed \/ DecideNotDue \/ TemplateInvalid
           \/ QueryRead \/ CollectStale \/ FinishFull \/ DeferConflict
           \/ QueryFails
  BY <1>5 DEF DecideFull, DecideElapsed, DecideNotDue, TemplateInvalid, QueryRead,
        CollectStale, FinishFull, DeferConflict, QueryFails, ToDefer,
        CleanupInv, crVars
<1>6. CASE DecideDetected \/ SkipSync
  BY <1>6 DEF DecideDetected, SkipSync, StatusUpdateDbqr, ToDefer, CleanupInv, TypeOK
<1>7. ASSUME NEW k \in Keys, CleanupDelete(k) PROVE CleanupInv'
  <2>1. Shrunk /\ ~Kept(k)'
    BY <1>7, DeleteShrinks DEF CleanupDelete
  <2>2. dbqr.status.managed \subseteq Keys
    BY CRParts DEF TypeOK
  <2> QED
    BY <1>7, <2>1, <2>2 DEF CleanupDelete, CleanupInv, Shrunk, crVars
<1>8. ASSUME NEW k \in Keys,
             \/ PruneDelete(k) \/ ApplyRow(k) \/ RenderFails(k)
             \/ ApplyFails(k) \/ PruneFails(k)
      PROVE  CleanupInv'
  BY <1>8 DEF PruneDelete, ApplyRow, RenderFails, ApplyFails, PruneFails, SkipRow,
        CleanupInv, crVars
<1>9. ASSUME NEW k \in Keys, ChildTouch(k) \/ ChildDelete(k) \/ ChildGone(k)
      PROVE  CleanupInv'
  <2>1. \A j \in Keys : Kept(j)' => Kept(j)
    <3>1. CASE ChildTouch(k)
      BY <3>1 DEF ChildTouch, Exists, Kept, TypeOK
    <3>2. CASE ChildDelete(k) \/ ChildGone(k)
      BY <3>2, DeleteShrinks DEF ChildDelete, Shrunk
    <3> QED
      BY <1>9, <3>1, <3>2
  <2>2. dbqr.status.managed \subseteq Keys
    BY CRParts DEF TypeOK
  <2> QED
    BY <1>9, <2>1, <2>2 DEF ChildTouch, ChildDelete, ChildGone, CleanupInv, crVars, passVars
<1>10. CASE CacheSync \/ TimerFires
  BY <1>10 DEF CacheSync, TimerFires, CleanupInv, crVars, apiVars, passVars, Exists, Kept
<1>11. CASE Crash
  BY <1>11 DEF Crash, CleanupInv
<1>12. CASE UserDelete
  BY <1>12, CRDeleted DEF UserDelete, CleanupInv, apiVars, Exists, Kept
<1>13. ASSUME NEW s \in Specs, SpecEdit(s) PROVE CleanupInv'
  BY <1>13 DEF SpecEdit, CleanupInv, apiVars, Exists, Kept
<1>14. ASSUME NEW k \in Keys, NEW v \in Vals \cup {None}, RowChange(k, v)
       PROVE  CleanupInv'
  BY <1>14 DEF RowChange, CleanupInv, crVars, passVars, Exists, Kept
<1>15. CASE UNCHANGED vars
  BY <1>15 DEF vars, CleanupInv, crVars, passVars, apiVars, Exists, Kept
<1> QED
  BY <1>1, <1>2, <1>3, <1>4, <1>5, <1>6, <1>7, <1>8, <1>9, <1>10, <1>11, <1>12,
     <1>13, <1>14, <1>15 DEF Next, Worker, WorkerFaults, Environment

\* Unless a Get of a child fails, the finalizer is removed only when every child
\* the stored ManagedResources names is gone or going, however stale the copy of
\* the CR was that the cleanup started from.
THEOREM FinalizerSafe ==
  ASSUME "getFault" \notin Faults
  PROVE  Spec => FinalizerComplete
<1>1. Init => TypeOK /\ CleanupInv
  BY TypeInit DEF Init, CleanupInv
<1>2. TypeOK /\ CleanupInv /\ [Next]_vars => TypeOK' /\ CleanupInv'
  BY TypeStep, CleanupStep
<1>3. TypeOK /\ CleanupInv /\ [Next]_vars
        => [cr.fin /\ ~cr'.fin => \A k \in cr.status.managed : ~Kept(k)]_vars
  <2> SUFFICES ASSUME TypeOK, CleanupInv, [Next]_vars, cr.fin, ~cr'.fin
               PROVE  \A k \in cr.status.managed : ~Kept(k)
    OBVIOUS
  <2>1. RemoveFinalizer
    BY OnlyRemoveFinalizer
  <2> QED
    BY <2>1 DEF RemoveFinalizer, CleanupInv
<1> QED
  BY <1>1, <1>2, <1>3, PTL DEF Spec, FinalizerComplete

----------------------------------------------------------------------------
(* What the updates of the records change and leave alone *)

\* What replacing the status changes, and what not.
LEMMA StatusField ==
  ASSUME NEW c \in CRType, NEW s, NEW d, d = [c EXCEPT !.status = s]
  PROVE  d.status = s /\ d.gen = c.gen
BY DEF CRType

\* The deferred write changes ObservedGeneration only.
LEMMA DesiredStatusFields ==
  ASSUME dbqr \in CRType
  PROVE  /\ DesiredStatus.obsGen = dbqr.gen
         /\ DesiredStatus.managed = dbqr.status.managed
         /\ DesiredStatus.versions = dbqr.status.versions
         /\ DesiredStatus.reason = dbqr.status.reason
BY DEF DesiredStatus, CRType, StatusType

\* A skipped pass changes no field SuccessMeansApplied is about but the reason.
LEMMA SkipStatusFields ==
  ASSUME dbqr \in CRType, NEW S
  PROVE  /\ SkipStatus(S).obsGen = dbqr.status.obsGen
         /\ SkipStatus(S).managed = dbqr.status.managed
         /\ SkipStatus(S).versions = RecordVersions(dbqr.status.versions, S)
         /\ SkipStatus(S).reason = "ChildResourceChanged"
<1>1. dbqr.status \in StatusType
  BY CRParts
<1> QED
  BY <1>1 DEF SkipStatus, StatusType

\* What a full pass writes into its copy of the status.
LEMMA PassStatusFields ==
  ASSUME dbqr \in CRType, NEW S
  PROVE  /\ PassStatus(S).obsGen = dbqr.status.obsGen
         /\ PassStatus(S).managed = keys
         /\ PassStatus(S).reason = IF errs THEN "ProcessingError" ELSE "Success"
         /\ PassStatus(S).versions =
              [k \in Keys |-> IF k \in keys
                                THEN RecordVersions(dbqr.status.versions, S)[k]
                                ELSE 0]
<1>1. dbqr.status \in StatusType
  BY CRParts
<1> QED
  BY <1>1 DEF PassStatus, StatusType

----------------------------------------------------------------------------
(* Generations: what a pass may publish *)

\* A status speaks only of generations its children were rendered from.
Sound(s) ==
  s.reason = "Success" =>
    \A k \in s.managed : Exists(k) => children[k].val.gen >= s.obsGen

\* The copies of the CR only ever lag: stored >= cached >= the pass's copy,
\* and no status is ahead of the copy it will be written through.
GenInv ==
  /\ cache.gen <= cr.gen
  /\ cr.status.obsGen <= cache.gen
  /\ cache.status.obsGen <= cache.gen
  /\ pc # "idle" => /\ dbqr.gen <= cache.gen
                    /\ cr.status.obsGen <= dbqr.gen
                    /\ cache.status.obsGen <= dbqr.gen
                    /\ dbqr.status.obsGen <= dbqr.gen

\* Every copy of the status is sound, and so is the one about to be written:
\* the keys of the pass name children rendered from its generation.
SoundInv ==
  /\ Sound(cr.status) /\ Sound(cache.status) /\ Sound(dbqr.status)
  /\ pc \in {"idle", "decide", "skip", "query"} => keys = {}
  /\ \A k \in keys : Exists(k) => children[k].val.gen >= dbqr.gen
  /\ pc = "skip" => dbqr.status.obsGen >= dbqr.gen
  /\ pc = "defer" => Sound(DesiredStatus)

\* Every step keeps the generations in order: no copy of the CR is ahead of
\* the stored one, and no status has observed a generation that is.
LEMMA GenStep ==
  ASSUME TypeOK, GenInv, [Next]_vars
  PROVE  GenInv'
<1> DEFINE Typed(c) == c.gen \in Nat /\ c.status.obsGen \in Nat
<1>0. Typed(cr) /\ Typed(cache) /\ Typed(dbqr)
  BY CRParts DEF TypeOK
<1>1. CASE \/ ReconcileGone \/ RemoveFinalizerFails \/ CleanupFails
           \/ DeferSkip \/ DeferGiveUp
  BY <1>1 DEF ReconcileGone, RemoveFinalizerFails, CleanupFails, DeferSkip,
        DeferGiveUp, Dequeue, EndPass, GenInv, crVars
<1>2. CASE ReconcileDeleted \/ ReconcileBegin
  BY <1>0, <1>2 DEF ReconcileDeleted, ReconcileBegin, Dequeue, GenInv, crVars
<1>3. CASE ReconcileInvalid
  BY <1>3 DEF ReconcileInvalid, Dequeue, ToDefer, GenInv, crVars, TypeOK, CRType, StatusType
<1>4. CASE RemoveFinalizer
  BY <1>4 DEF RemoveFinalizer, EndPass, GenInv, TypeOK, CRType
<1>5. CASE DeferWrite
  <2>1. cr'.gen = cr.gen /\ cr'.status.obsGen = dbqr.gen
    BY <1>5, DesiredStatusType DEF DeferWrite, DesiredStatus, TypeOK, CRType, StatusType
  <2> QED
    BY <1>5, <2>1 DEF DeferWrite, EndPass, GenInv
<1>6. CASE DecideFull \/ DecideElapsed \/ DecideNotDue \/ QueryRead \/ CollectStale
           \/ DeferConflict
  BY <1>6 DEF DecideFull, DecideElapsed, DecideNotDue, QueryRead, CollectStale,
        DeferConflict, GenInv, crVars
<1>7. CASE TemplateInvalid \/ QueryFails
  <2>1. PICK r : dbqr' = [dbqr EXCEPT !.status.reason = r]
    BY <1>7 DEF TemplateInvalid, QueryFails
  <2>2. dbqr'.gen = dbqr.gen /\ dbqr'.status.obsGen = dbqr.status.obsGen
    <3>1. dbqr \in CRType
      BY DEF TypeOK
    <3> QED
      BY <2>1, <3>1 DEF CRType, StatusType
  <2> QED
    BY <1>7, <2>2 DEF TemplateInvalid, QueryFails, ToDefer, GenInv, crVars
<1>8. CASE FinishFull
  <2>1. PICK S : dbqr' = [dbqr EXCEPT !.status = PassStatus(S)]
    BY <1>8 DEF FinishFull
  <2>2. dbqr'.gen = dbqr.gen /\ dbqr'.status = PassStatus(S)
    BY <2>1, StatusField DEF TypeOK
  <2>3. dbqr'.status.obsGen = dbqr.status.obsGen
    BY <2>2, PassStatusFields DEF TypeOK
  <2> QED
    BY <1>8, <2>2, <2>3 DEF FinishFull, ToDefer, GenInv, crVars
<1>9. CASE DecideDetected \/ SkipSync
  <2>1. PICK s : /\ s.obsGen = dbqr.status.obsGen
                 /\ StatusUpdateDbqr(s) \/ UNCHANGED <<dbqr, cr>>
    BY <1>9, SkipStatusFields DEF DecideDetected, SkipSync, TypeOK
  <2>2. /\ dbqr'.gen = dbqr.gen /\ dbqr'.status.obsGen = dbqr.status.obsGen
        /\ cr'.gen = cr.gen
        /\ cr'.status.obsGen \in {cr.status.obsGen, dbqr.status.obsGen}
    <3>1. CASE UNCHANGED <<dbqr, cr>>
      BY <3>1
    <3>2. CASE StatusUpdateDbqr(s)
      <4>0. cr \in CRType /\ dbqr \in CRType
        BY DEF TypeOK
      <4>1. dbqr'.gen = dbqr.gen /\ dbqr'.status = s
        BY <3>2, <4>0 DEF StatusUpdateDbqr, CRType
      <4>2. cr'.gen = cr.gen /\ cr'.status \in {cr.status, s}
        <5>1. cr' = cr \/ cr' = [cr EXCEPT !.status = s]
          BY <3>2 DEF StatusUpdateDbqr
        <5> QED
          BY <4>0, <5>1 DEF CRType
      <4> QED
        BY <4>1, <4>2, <2>1
    <3> QED
      BY <2>1, <3>1, <3>2
  <2>3. pc # "idle" /\ UNCHANGED cache
    BY <1>9 DEF DecideDetected, SkipSync
  <2> QED
    BY <1>0, <2>2, <2>3 DEF GenInv
<1>10. ASSUME NEW k \in Keys, PruneDelete(k) PROVE GenInv'
  <2>1. dbqr'.gen = dbqr.gen /\ dbqr'.status.obsGen = dbqr.status.obsGen
    BY <1>10 DEF PruneDelete, TypeOK, CRType, StatusType
  <2> QED
    BY <1>10, <2>1 DEF PruneDelete, GenInv, crVars
<1>11. ASSUME NEW k \in Keys,
              \/ CleanupDelete(k) \/ ApplyRow(k) \/ RenderFails(k) \/ ApplyFails(k)
              \/ PruneFails(k) \/ ChildTouch(k) \/ ChildDelete(k) \/ ChildGone(k)
       PROVE  GenInv'
  BY <1>11 DEF CleanupDelete, ApplyRow, RenderFails, ApplyFails, PruneFails, SkipRow,
        ChildTouch, ChildDelete, ChildGone, GenInv, crVars, passVars
<1>12. CASE CacheSync
  BY <1>0, <1>12 DEF CacheSync, GenInv, passVars
<1>13. CASE TimerFires \/ UNCHANGED vars
  BY <1>13 DEF TimerFires, vars, GenInv, crVars, passVars
<1>14. CASE Crash
  BY <1>0, <1>14 DEF Crash, GenInv
<1>15. CASE UserDelete
  BY <1>15 DEF UserDelete, GenInv, TypeOK, CRType
<1>16. ASSUME NEW s \in Specs, SpecEdit(s) PROVE GenInv'
  <2>1. cr'.gen = cr.gen + 1 /\ cr'.status = cr.status
    BY <1>16 DEF SpecEdit, TypeOK, CRType
  <2> QED
    BY <1>0, <1>16, <2>1 DEF SpecEdit, GenInv
<1>17. ASSUME NEW k \in Keys, NEW v \in Vals \cup {None}, RowChange(k, v)
       PROVE  GenInv'
  BY <1>17 DEF RowChange, GenInv, crVars, passVars
<1> QED
  BY <1>1, <1>2, <1>3, <1>4, <1>5, <1>6, <1>7, <1>8, <1>9, <1>10, <1>11, <1>12,
     <1>13, <1>14, <1>15, <1>16, <1>17 DEF Next, Worker, WorkerFaults, Environment

\* The three copies of the status, and the status about to be written,
\* stay sound across a step that changes none of them and at most removes
\* children or touches their versions.
LEMMA SoundFrame ==
  ASSUME TypeOK, SoundInv,
         cr'.status = cr.status, cache'.status = cache.status,
         dbqr'.status = dbqr.status, dbqr'.gen = dbqr.gen,
         pc' = pc, keys' = keys, dbqr' \in CRType,
         \A k \in Keys : Exists(k)' => Exists(k) /\ children'[k].val = children[k].val
  PROVE  SoundInv'
<1>1. /\ cr.status.managed \subseteq Keys
      /\ cache.status.managed \subseteq Keys
      /\ dbqr.status.managed \subseteq Keys
  BY CRParts DEF TypeOK
<1>2. Sound(cr.status)' /\ Sound(cache.status)' /\ Sound(dbqr.status)'
  BY <1>1 DEF SoundInv, Sound
<1>3. \A k \in keys' : Exists(k)' => children'[k].val.gen >= dbqr'.gen
  BY DEF SoundInv, TypeOK
<1>4. pc' = "defer" => Sound(DesiredStatus)'
  <2> SUFFICES ASSUME pc = "defer" PROVE Sound(DesiredStatus)'
    OBVIOUS
  <2>1. /\ DesiredStatus.obsGen = dbqr.gen
        /\ DesiredStatus.managed = dbqr.status.managed
        /\ DesiredStatus.reason = dbqr.status.reason
    BY DesiredStatusFields DEF TypeOK
  <2>2. DesiredStatus' = DesiredStatus
    BY DEF DesiredStatus
  <2>3. Sound(DesiredStatus)
    BY DEF SoundInv
  <2> QED
    BY <1>1, <2>1, <2>2, <2>3 DEF Sound
<1> QED
  BY <1>2, <1>3, <1>4 DEF SoundInv

\* Every step keeps all copies of the status sound.
LEMMA SoundStep ==
  ASSUME TypeOK, TypeOK', GenInv, SoundInv, [Next]_vars
  PROVE  SoundInv'
<1>a. cr \in CRType /\ cache \in CRType /\ dbqr \in CRType /\ dbqr' \in CRType
  BY DEF TypeOK
<1>b. NoCR.status.reason # "Success" /\ NoCR.gen = 0
  BY DEF NoCR, NoStatus
<1>1. CASE \/ ReconcileGone \/ RemoveFinalizerFails \/ CleanupFails
           \/ DeferSkip \/ DeferGiveUp
  BY <1>1, <1>b DEF ReconcileGone, RemoveFinalizerFails, CleanupFails, DeferSkip,
        DeferGiveUp, Dequeue, EndPass, SoundInv, Sound, Exists, crVars, apiVars
<1>2. CASE ReconcileDeleted \/ ReconcileBegin
  BY <1>2 DEF ReconcileDeleted, ReconcileBegin, Dequeue, SoundInv, Sound, Exists,
        crVars, apiVars
<1>3. CASE ReconcileInvalid
  <2>1. dbqr'.status.reason = "InvalidSpec"
    BY <1>3, <1>a DEF ReconcileInvalid, CRType, StatusType
  <2>2. DesiredStatus'.reason = "InvalidSpec"
    BY <1>a, <2>1 DEF DesiredStatus, CRType, StatusType
  <2> QED
    BY <1>3, <2>1, <2>2 DEF ReconcileInvalid, Dequeue, ToDefer, SoundInv, Sound, Exists,
          crVars, apiVars
<1>4. CASE RemoveFinalizer
  <2>1. cr'.status = cr.status
    BY <1>4, <1>a DEF RemoveFinalizer, CRType
  <2> QED
    BY <1>4, <1>b, <2>1 DEF RemoveFinalizer, EndPass, SoundInv, Sound, Exists, apiVars
<1>5. CASE DeferWrite
  <2>1. cr'.status = DesiredStatus
    BY <1>5, <1>a DEF DeferWrite, CRType
  <2> QED
    BY <1>5, <1>b, <2>1 DEF DeferWrite, EndPass, SoundInv, Sound, Exists, apiVars
<1>6. CASE DecideFull \/ DecideElapsed \/ QueryRead \/ CollectStale
  BY <1>6 DEF DecideFull, DecideElapsed, QueryRead, CollectStale, SoundInv,
        Sound, Exists, crVars, apiVars
<1>7. CASE DecideNotDue
  <2>1. dbqr.status.obsGen >= dbqr.gen
    BY <1>7, <1>a, CRParts DEF DecideNotDue, ForceFull
  <2> QED
    BY <1>7, <2>1 DEF DecideNotDue, SoundInv, Sound, Exists, crVars, apiVars
<1>8. CASE TemplateInvalid \/ QueryFails
  <2>0. PICK r : r # "Success" /\ dbqr' = [dbqr EXCEPT !.status.reason = r]
    BY <1>8 DEF TemplateInvalid, QueryFails
  <2>1. dbqr'.gen = dbqr.gen /\ dbqr'.status.reason # "Success"
    BY <1>a, <2>0 DEF CRType, StatusType
  <2>2. DesiredStatus'.reason # "Success"
    BY <1>a, <2>1 DEF DesiredStatus, CRType, StatusType
  <2> QED
    BY <1>8, <2>1, <2>2 DEF TemplateInvalid, QueryFails, ToDefer, SoundInv, Sound,
          Exists, crVars, apiVars
<1>9. CASE FinishFull
  <2>1. PICK S \in SUBSET Unreported(dbqr) : dbqr' = [dbqr EXCEPT !.status = PassStatus(S)]
    BY <1>9 DEF FinishFull
  <2>2. dbqr'.gen = dbqr.gen /\ dbqr'.status = PassStatus(S)
    BY <1>a, <2>1 DEF CRType
  <2>3. /\ dbqr'.status.managed = keys
        /\ dbqr'.status.obsGen = dbqr.status.obsGen
    BY <1>a, <2>2, PassStatusFields
  <2>4. DesiredStatus'.managed = keys /\ DesiredStatus'.obsGen = dbqr.gen
    BY <1>a, <2>2, <2>3 DEF DesiredStatus, CRType, StatusType
  <2>5. \A k \in keys : Exists(k) => children[k].val.gen >= dbqr.gen
    BY DEF SoundInv
  <2>6. dbqr.status.obsGen <= dbqr.gen
    BY <1>9 DEF FinishFull, GenInv
  <2>7. \A k \in keys : Exists(k) => children[k].val.gen \in Nat
    BY DEF TypeOK, Exists, Rendered
  <2>8. \A k \in keys : Exists(k) => children[k].val.gen >= dbqr.status.obsGen
    BY <1>a, <2>5, <2>6, <2>7, CRParts
  <2>9. UNCHANGED <<children, crVars, keys>> /\ pc' = "defer"
    BY <1>9 DEF FinishFull, ToDefer
  <2>10. Sound(dbqr.status)' /\ Sound(DesiredStatus)'
    BY <2>3, <2>4, <2>5, <2>8, <2>9 DEF Sound, Exists
  <2> QED
    BY <2>2, <2>5, <2>9, <2>10 DEF SoundInv, Sound, Exists, crVars
<1>10. CASE DecideDetected
  <2>1. dbqr' = dbqr /\ cr'.status \in {cr.status, dbqr.status}
    BY <1>10, <1>a DEF DecideDetected, StatusUpdateDbqr, CRType
  <2>2. dbqr.status.obsGen >= dbqr.gen
    BY <1>10, <1>a, CRParts DEF DecideDetected, ForceFull
  <2> QED
    BY <1>10, <2>1, <2>2 DEF DecideDetected, SoundInv, Sound, Exists, apiVars
<1>11. CASE SkipSync
  <2>1. PICK S : \/ UNCHANGED <<dbqr, cr>>
                 \/ StatusUpdateDbqr(SkipStatus(S))
    BY <1>11 DEF SkipSync
  <2>2. UNCHANGED <<children, cache, keys>> /\ pc = "skip" /\ pc' = "defer"
    BY <1>11 DEF SkipSync, ToDefer
  <2>3. CASE UNCHANGED <<dbqr, cr>>
    <3>1. /\ DesiredStatus'.obsGen = dbqr.gen
          /\ DesiredStatus'.managed = dbqr.status.managed
          /\ DesiredStatus'.reason = dbqr.status.reason
      BY <1>a, <2>3 DEF DesiredStatus, CRType, StatusType
    <3>2. dbqr.status.obsGen >= dbqr.gen /\ Sound(dbqr.status)
      BY <2>2 DEF SoundInv
    <3>3. \A k \in dbqr.status.managed : Exists(k) => children[k].val.gen \in Nat
      BY <1>a, CRParts DEF TypeOK, Exists, Rendered
    <3>4. dbqr.status.obsGen \in Nat /\ dbqr.gen \in Nat
      BY <1>a, CRParts
    <3>5. Sound(DesiredStatus)'
      BY <2>2, <3>1, <3>2, <3>3, <3>4 DEF Sound, Exists
    <3> QED
      BY <2>2, <2>3, <3>5 DEF SoundInv, Sound, Exists
  <2>4. CASE StatusUpdateDbqr(SkipStatus(S))
    <3>1. SkipStatus(S).reason = "ChildResourceChanged"
      BY <1>a, SkipStatusFields
    <3>2. dbqr'.gen = dbqr.gen /\ dbqr'.status = SkipStatus(S)
      BY <1>a, <2>4 DEF StatusUpdateDbqr, CRType
    <3>3. cr' = cr \/ cr' = [cr EXCEPT !.status = SkipStatus(S)]
      BY <2>4 DEF StatusUpdateDbqr
    <3>4. cr'.status \in {cr.status, SkipStatus(S)}
      BY <1>a, <3>3 DEF CRType
    <3>5. DesiredStatus'.reason = "ChildResourceChanged"
      BY <1>a, <3>1, <3>2 DEF DesiredStatus, CRType, StatusType
    <3> QED
      BY <2>2, <3>1, <3>2, <3>4, <3>5 DEF SoundInv, Sound, Exists
  <2> QED
    BY <2>1, <2>3, <2>4
<1>12. ASSUME NEW k \in Keys,
              \/ CleanupDelete(k) \/ PruneDelete(k) \/ ChildTouch(k) \/ ChildDelete(k)
              \/ ChildGone(k)
       PROVE  SoundInv'
  <2>1. \A j \in Keys : Exists(j)' => Exists(j) /\ children'[j].val = children[j].val
    <3>1. CASE ChildTouch(k)
      BY <3>1 DEF ChildTouch, Exists, TypeOK
    <3>2. CASE Delete(k) \/ ChildGone(k)
      BY <3>2, DeleteShrinks DEF Shrunk
    <3> QED
      BY <1>12, <3>1, <3>2 DEF CleanupDelete, PruneDelete, ChildDelete
  <2>2. UNCHANGED <<cr, cache, pc, keys>>
    BY <1>12 DEF CleanupDelete, PruneDelete, ChildTouch, ChildDelete, ChildGone, crVars,
          passVars
  <2>3. CASE dbqr' = dbqr
    BY <1>a, <2>1, <2>2, <2>3, SoundFrame
  <2>4. CASE PruneDelete(k)
    <3>1. /\ dbqr'.gen = dbqr.gen
          /\ dbqr'.status.obsGen = dbqr.status.obsGen
          /\ dbqr'.status.managed = dbqr.status.managed
          /\ dbqr'.status.reason = dbqr.status.reason
      BY <1>a, <2>4 DEF PruneDelete, CRType, StatusType
    <3>2. pc = "prune"
      BY <2>4 DEF PruneDelete
    <3>3. /\ cr.status.managed \subseteq Keys
          /\ cache.status.managed \subseteq Keys
          /\ dbqr.status.managed \subseteq Keys /\ keys \subseteq Keys
      BY <1>a, CRParts DEF TypeOK
    <3>4. Sound(cr.status)' /\ Sound(cache.status)' /\ Sound(dbqr.status)'
      BY <2>1, <2>2, <3>1, <3>3 DEF SoundInv, Sound
    <3> QED
      BY <2>1, <2>2, <3>1, <3>2, <3>3, <3>4 DEF SoundInv
  <2> QED
    BY <1>12, <2>3, <2>4 DEF CleanupDelete, ChildTouch, ChildDelete, ChildGone, passVars
<1>13. ASSUME NEW k \in Keys, ApplyRow(k) PROVE SoundInv'
  <2>1. UNCHANGED <<cr, cache, dbqr, pc>> /\ pc = "rows" /\ keys' = keys \cup {k}
    BY <1>13 DEF ApplyRow, crVars
  <2>2. children'[k].val.gen = dbqr.gen
    BY <1>13 DEF ApplyRow, Desired, TypeOK
  <2>3. \A j \in Keys : j # k => children'[j] = children[j]
    BY <1>13 DEF ApplyRow, TypeOK
  <2>4. /\ cr.status.managed \subseteq Keys
        /\ cache.status.managed \subseteq Keys
        /\ dbqr.status.managed \subseteq Keys /\ keys \subseteq Keys
    BY <1>a, CRParts DEF TypeOK
  <2>5. /\ cr.status.obsGen <= dbqr.gen
        /\ cache.status.obsGen <= dbqr.gen
        /\ dbqr.status.obsGen <= dbqr.gen
    BY <2>1 DEF GenInv
  <2>6. /\ cr.status.obsGen \in Nat /\ cache.status.obsGen \in Nat
        /\ dbqr.status.obsGen \in Nat /\ dbqr.gen \in Nat
    BY <1>a, CRParts
  <2>7. Sound(cr.status)' /\ Sound(cache.status)' /\ Sound(dbqr.status)'
    BY <2>1, <2>2, <2>3, <2>4, <2>5, <2>6 DEF SoundInv, Sound, Exists
  <2>8. \A j \in keys' : Exists(j)' => children'[j].val.gen >= dbqr'.gen
    BY <2>1, <2>2, <2>3, <2>4, <2>6 DEF SoundInv, Exists
  <2> QED
    BY <2>1, <2>7, <2>8 DEF SoundInv
<1>14. ASSUME NEW k \in Keys, RenderFails(k) \/ ApplyFails(k) \/ PruneFails(k)
       PROVE  SoundInv'
  BY <1>14, <1>a, SoundFrame DEF RenderFails, ApplyFails, PruneFails, SkipRow, Exists,
        crVars, apiVars
<1>15. CASE TimerFires \/ DeferConflict \/ UNCHANGED vars
  BY <1>15, <1>a, SoundFrame DEF TimerFires, DeferConflict, vars, Exists, crVars,
        apiVars, passVars
<1>16. CASE CacheSync
  BY <1>16 DEF CacheSync, SoundInv, Sound, Exists, DesiredStatus, apiVars, passVars
<1>17. CASE Crash
  BY <1>17, <1>b DEF Crash, SoundInv, Sound, Exists, apiVars
<1>18. CASE UserDelete
  <2>1. cr'.status = cr.status
    BY <1>18, <1>a DEF UserDelete, CRType
  <2> QED
    BY <1>18, <1>a, <2>1, SoundFrame DEF UserDelete, Exists, apiVars
<1>19. ASSUME NEW s \in Specs, SpecEdit(s) PROVE SoundInv'
  <2>1. cr'.status = cr.status
    BY <1>19, <1>a DEF SpecEdit, CRType
  <2> QED
    BY <1>19, <1>a, <2>1, SoundFrame DEF SpecEdit, Exists, apiVars
<1>20. ASSUME NEW k \in Keys, NEW v \in Vals \cup {None}, RowChange(k, v)
       PROVE  SoundInv'
  BY <1>20, <1>a, SoundFrame DEF RowChange, Exists, crVars, passVars
<1> QED
  BY <1>1, <1>2, <1>3, <1>4, <1>5, <1>6, <1>7, <1>8, <1>9, <1>10, <1>11, <1>12,
     <1>13, <1>14, <1>15, <1>16, <1>17, <1>18, <1>19, <1>20
  DEF Next, Worker, WorkerFaults, Environment

\* A persisted success for a generation is backed by the children, whatever
\* is edited, lost, stale or restarted under the pass that published it.
THEOREM SuccessBacked == Spec => []SuccessMeansApplied
<1>1. Init => TypeOK /\ GenInv /\ SoundInv
  <2> SUFFICES ASSUME Init PROVE GenInv /\ SoundInv
    BY TypeInit
  <2>1. cr.gen = 1 /\ cr.status = NoStatus
    BY DEF Init, NoCR
  <2> QED
    BY <2>1 DEF Init, GenInv, SoundInv, Sound, NoCR, NoStatus
<1>2. TypeOK /\ GenInv /\ SoundInv /\ [Next]_vars => TypeOK' /\ GenInv' /\ SoundInv'
  BY TypeStep, GenStep, SoundStep
<1>3. SoundInv => SuccessMeansApplied
  BY DEF SoundInv, Sound, SuccessMeansApplied
<1> QED
  BY <1>1, <1>2, <1>3, PTL DEF Spec

----------------------------------------------------------------------------
(* ResourceVersions *)

VersionInv ==
  /\ \A k \in Keys : reported[k] <= children[k].ver
  /\ \A k \in Keys : /\ cr.status.versions[k] <= reported[k]
                     /\ cache.status.versions[k] <= reported[k]
                     /\ dbqr.status.versions[k] <= reported[k]
  /\ \A k \in Keys : /\ cr.status.versions[k] # 0 => k \in cr.status.managed
                     /\ cache.status.versions[k] # 0 => k \in cache.status.managed
                     /\ dbqr.status.versions[k] # 0 => k \in dbqr.status.managed

\* What a step does to the three copies of ResourceVersions.
VersionsOK(s) ==
  \A k \in Keys : /\ s.versions[k] <= reported[k]
                  /\ s.versions[k] # 0 => k \in s.managed

\* A step that leaves the stored and the cached status and the database alone
\* keeps VersionInv if it keeps the pass's own copy in order.
LEMMA VersionFrame ==
  ASSUME TypeOK, VersionInv,
         cr'.status = cr.status, cache'.status = cache.status,
         UNCHANGED reported,
         \A k \in Keys : children'[k].ver >= children[k].ver,
         TypeOK', VersionsOK(dbqr.status)'
  PROVE  VersionInv'
<1>1. \A k \in Keys : /\ reported[k] \in Nat /\ children[k].ver \in Nat
                      /\ children'[k].ver \in Nat
  BY DEF TypeOK
<1> QED
  BY <1>1 DEF VersionInv, VersionsOK

\* Recording the versions that were just reported keeps a status in order.
LEMMA RecordOK ==
  ASSUME TypeOK, VersionInv, NEW S \in SUBSET Unreported(dbqr), Reported(S)
  PROVE  /\ \A k \in Keys : reported'[k] <= children[k].ver /\ reported'[k] >= reported[k]
         /\ \A k \in Keys :
              RecordVersions(dbqr.status.versions, S)[k] <= reported'[k]
         /\ \A k \in Keys :
              RecordVersions(dbqr.status.versions, S)[k] # 0 => k \in dbqr.status.managed
<1>1. \A k \in Keys : /\ reported[k] \in Nat /\ children[k].ver \in Nat
                      /\ dbqr.status.versions[k] \in Nat
  BY CRParts DEF TypeOK
<1>2. S \subseteq dbqr.status.managed
  BY DEF Unreported
<1> QED
  BY <1>1, <1>2 DEF VersionInv, Reported, RecordVersions

\* Every step preserves VersionInv.
LEMMA VersionStep ==
  ASSUME TypeOK, TypeOK', VersionInv, [Next]_vars
  PROVE  VersionInv'
<1>a. cr \in CRType /\ cache \in CRType /\ dbqr \in CRType /\ dbqr' \in CRType
  BY DEF TypeOK
<1>b. VersionsOK(dbqr.status)
  BY DEF VersionInv, VersionsOK
<1>c. \A k \in Keys : /\ reported[k] \in Nat /\ children[k].ver \in Nat
                      /\ reported'[k] \in Nat
                      /\ cr.status.versions[k] \in Nat
                      /\ cache.status.versions[k] \in Nat
                      /\ dbqr.status.versions[k] \in Nat
  BY <1>a, CRParts DEF TypeOK
<1>d. dbqr' = NoCR /\ UNCHANGED reported => VersionsOK(dbqr.status)'
  BY <1>c DEF NoCR, NoStatus, VersionsOK
<1>e. UNCHANGED <<dbqr, reported>> => VersionsOK(dbqr.status)'
  BY <1>b DEF VersionsOK
<1>f. UNCHANGED children => \A k \in Keys : children'[k].ver >= children[k].ver
  BY <1>c
<1>1. CASE \/ ReconcileGone \/ RemoveFinalizerFails \/ CleanupFails
           \/ DeferSkip \/ DeferGiveUp
  BY <1>1, <1>d, <1>f, VersionFrame DEF ReconcileGone, RemoveFinalizerFails,
        CleanupFails, DeferSkip, DeferGiveUp, Dequeue, EndPass, crVars, apiVars
<1>2. CASE ReconcileDeleted \/ ReconcileBegin
  BY <1>2 DEF ReconcileDeleted, ReconcileBegin, Dequeue, VersionInv, crVars, apiVars
<1>3. CASE ReconcileInvalid
  <2>1. /\ dbqr'.status.versions = cache.status.versions
        /\ dbqr'.status.managed = cache.status.managed
    BY <1>3, <1>a DEF ReconcileInvalid, CRType, StatusType
  <2> QED
    BY <1>3, <2>1 DEF ReconcileInvalid, Dequeue, VersionInv, crVars, apiVars
<1>4. CASE RemoveFinalizer
  <2>1. cr'.status = cr.status
    BY <1>4, <1>a DEF RemoveFinalizer, CRType
  <2> QED
    BY <1>4, <2>1, <1>d, <1>f, VersionFrame DEF RemoveFinalizer, EndPass, apiVars
<1>5. CASE DeferWrite
  <2>1. /\ cr'.status.versions = dbqr.status.versions
        /\ cr'.status.managed = dbqr.status.managed
    BY <1>5, <1>a DEF DeferWrite, DesiredStatus, CRType, StatusType
  <2>2. VersionsOK(dbqr.status)' /\ UNCHANGED <<apiVars, cache>>
    BY <1>5, <1>d DEF DeferWrite, EndPass, apiVars
  <2> QED
    BY <2>1, <2>2 DEF VersionInv, VersionsOK, apiVars
<1>6. CASE \/ DecideFull \/ DecideElapsed \/ DecideNotDue \/ QueryRead
           \/ CollectStale \/ DeferConflict \/ TimerFires \/ UNCHANGED vars
  BY <1>6, <1>e, <1>f, VersionFrame DEF DecideFull, DecideElapsed, DecideNotDue,
        QueryRead, CollectStale, DeferConflict, TimerFires, vars, crVars, apiVars,
        passVars
<1>7. CASE TemplateInvalid \/ QueryFails
  <2>1. PICK r : dbqr' = [dbqr EXCEPT !.status.reason = r]
    BY <1>7 DEF TemplateInvalid, QueryFails
  <2>2. /\ dbqr'.status.versions = dbqr.status.versions
        /\ dbqr'.status.managed = dbqr.status.managed
    BY <1>a, <2>1 DEF CRType, StatusType
  <2> QED
    BY <1>7, <2>2 DEF TemplateInvalid, QueryFails, VersionInv, crVars, apiVars
<1>8. CASE FinishFull
  <2>1. PICK S \in SUBSET Unreported(dbqr) :
          Reported(S) /\ dbqr' = [dbqr EXCEPT !.status = PassStatus(S)]
    BY <1>8 DEF FinishFull
  <2>2. dbqr'.status = PassStatus(S)
    BY <1>a, <2>1 DEF CRType
  <2>3. /\ dbqr'.status.managed = keys
        /\ dbqr'.status.versions =
             [k \in Keys |-> IF k \in keys
                               THEN RecordVersions(dbqr.status.versions, S)[k]
                               ELSE 0]
    BY <1>a, <2>2, PassStatusFields
  <2>4. UNCHANGED <<children, crVars>>
    BY <1>8 DEF FinishFull
  <2>5. VersionsOK(dbqr.status)'
    BY <2>1, <2>3, <1>c, RecordOK DEF VersionsOK
  <2> QED
    BY <2>1, <2>4, <2>5, <1>c, RecordOK DEF VersionInv, VersionsOK, crVars
<1>9. CASE DecideDetected
  <2>1. dbqr' = dbqr /\ cr'.status \in {cr.status, dbqr.status}
    BY <1>9, <1>a DEF DecideDetected, StatusUpdateDbqr, CRType
  <2> QED
    BY <1>9, <2>1 DEF DecideDetected, VersionInv, apiVars
<1>10. CASE SkipSync
  <2>1. PICK S \in SUBSET Unreported(dbqr) :
          /\ Reported(S)
          /\ \/ UNCHANGED <<dbqr, cr>>
             \/ StatusUpdateDbqr(SkipStatus(S))
    BY <1>10 DEF SkipSync
  <2>2. UNCHANGED <<children, cache>>
    BY <1>10 DEF SkipSync
  <2>3. CASE UNCHANGED <<dbqr, cr>>
    BY <2>1, <2>2, <2>3, <1>c, RecordOK DEF VersionInv
  <2>4. CASE StatusUpdateDbqr(SkipStatus(S))
    <3>1. /\ SkipStatus(S).managed = dbqr.status.managed
          /\ SkipStatus(S).versions = RecordVersions(dbqr.status.versions, S)
      BY <1>a, SkipStatusFields
    <3>2. dbqr'.status = SkipStatus(S)
      BY <1>a, <2>4 DEF StatusUpdateDbqr, CRType
    <3>3. cr' = cr \/ cr' = [cr EXCEPT !.status = SkipStatus(S)]
      BY <2>4 DEF StatusUpdateDbqr
    <3>4. cr'.status \in {cr.status, SkipStatus(S)}
      BY <1>a, <3>3 DEF CRType
    <3>5. VersionsOK(dbqr.status)'
      BY <2>1, <3>1, <3>2, RecordOK DEF VersionsOK
    <3>6. \A k \in Keys : /\ cr'.status.versions[k] <= reported'[k]
                          /\ cr'.status.versions[k] # 0 => k \in cr'.status.managed
      <4>1. CASE cr'.status = cr.status
        BY <4>1, <2>1, <1>c, RecordOK DEF VersionInv
      <4>2. CASE cr'.status = SkipStatus(S)
        BY <4>2, <3>2, <3>5 DEF VersionsOK
      <4> QED
        BY <3>4, <4>1, <4>2
    <3> QED
      BY <2>1, <2>2, <3>5, <3>6, <1>c, RecordOK DEF VersionInv, VersionsOK
  <2> QED
    BY <2>1, <2>3, <2>4
<1>11. ASSUME NEW k \in Keys, PruneDelete(k) PROVE VersionInv'
  <2>1. /\ dbqr'.status.managed = dbqr.status.managed
        /\ dbqr'.status.versions = [dbqr.status.versions EXCEPT ![k] = 0]
    BY <1>11, <1>a DEF PruneDelete, CRType, StatusType
  <2>2. dbqr.status.versions \in [Keys -> Nat]
    BY <1>a, CRParts
  <2>3. UNCHANGED reported
    BY <1>11 DEF PruneDelete
  <2>4. VersionsOK(dbqr.status)'
    BY <2>1, <2>2, <2>3, <1>b, <1>c DEF VersionsOK
  <2>5. \A j \in Keys : children'[j].ver >= children[j].ver
    BY <1>11, DeleteShrinks DEF PruneDelete, Shrunk
  <2> QED
    BY <1>11, <2>3, <2>4, <2>5, VersionFrame DEF PruneDelete, crVars
<1>12. ASSUME NEW k \in Keys,
              \/ CleanupDelete(k) \/ ApplyRow(k) \/ ChildTouch(k) \/ ChildDelete(k)
              \/ ChildGone(k)
       PROVE  VersionInv'
  <2>1. \A j \in Keys : children'[j].ver >= children[j].ver
    <3>1. CASE ApplyRow(k) \/ ChildTouch(k)
      BY <3>1 DEF ApplyRow, ChildTouch, TypeOK
    <3>2. CASE Delete(k) \/ ChildGone(k)
      BY <3>2, DeleteShrinks DEF Shrunk
    <3> QED
      BY <1>12, <3>1, <3>2 DEF CleanupDelete, ChildDelete
  <2>2. UNCHANGED <<reported, dbqr, cr, cache>>
    BY <1>12 DEF CleanupDelete, ApplyRow, ChildTouch, ChildDelete, ChildGone, crVars,
          passVars
  <2> QED
    BY <2>1, <2>2, <1>e, VersionFrame
<1>13. ASSUME NEW k \in Keys, RenderFails(k) \/ ApplyFails(k) \/ PruneFails(k)
       PROVE  VersionInv'
  BY <1>13, <1>e, <1>f, VersionFrame DEF RenderFails, ApplyFails, PruneFails, SkipRow,
        crVars, apiVars
<1>14. CASE CacheSync
  BY <1>14 DEF CacheSync, VersionInv, apiVars, passVars
<1>15. CASE Crash
  BY <1>15, <1>d DEF Crash, VersionInv, VersionsOK, apiVars
<1>16. CASE UserDelete
  <2>1. cr'.status = cr.status
    BY <1>16, <1>a DEF UserDelete, CRType
  <2> QED
    BY <1>16, <2>1, <1>e, <1>f, VersionFrame DEF UserDelete, apiVars
<1>17. ASSUME NEW s \in Specs, SpecEdit(s) PROVE VersionInv'
  <2>1. cr'.status = cr.status
    BY <1>17, <1>a DEF SpecEdit, CRType
  <2> QED
    BY <1>17, <2>1, <1>e, <1>f, VersionFrame DEF SpecEdit, apiVars
<1>18. ASSUME NEW k \in Keys, NEW v \in Vals \cup {None}, RowChange(k, v)
       PROVE  VersionInv'
  BY <1>18, <1>e, <1>f, VersionFrame DEF RowChange, crVars, passVars
<1> QED
  BY <1>1, <1>2, <1>3, <1>4, <1>5, <1>6, <1>7, <1>8, <1>9, <1>10, <1>11, <1>12,
     <1>13, <1>14, <1>15, <1>16, <1>17, <1>18
  DEF Next, Worker, WorkerFaults, Environment

\* The inductive form of the two theorems on ResourceVersions.
LEMMA VersionInductive == Spec => []VersionInv
<1>1. Init => TypeOK /\ VersionInv
  <2> SUFFICES ASSUME Init PROVE VersionInv
    BY TypeInit
  <2>1. cr.status = NoStatus /\ cache = cr /\ dbqr = NoCR
    BY DEF Init, NoCR
  <2> QED
    BY <2>1 DEF Init, VersionInv, NoCR, NoStatus
<1>2. TypeOK /\ VersionInv /\ [Next]_vars => TypeOK' /\ VersionInv'
  BY TypeStep, VersionStep
<1> QED
  BY <1>1, <1>2, PTL DEF Spec

\* No version of a child is ever remembered, in the stored status or in the
\* copy of a pass, before the database took the update for it.
THEOREM VersionsAreReported == Spec => []VersionsReported
<1>1. VersionInv => VersionsReported
  BY DEF VersionInv, VersionsReported
<1> QED
  BY <1>1, VersionInductive, PTL

\* The stored ResourceVersions only has entries for managed children.
THEOREM VersionsAreManaged == Spec => []VersionsManaged
<1>1. VersionInv => VersionsManaged
  BY DEF VersionInv, VersionsManaged
<1> QED
  BY <1>1, VersionInductive, PTL

----------------------------------------------------------------------------
(* What a pruning pass knows of the children it drops *)

\* While it deletes, a child of its ManagedResources that is not among its keys
\* and not gone or going is still to be deleted, or an error is on record.
DropInv ==
  pc = "prune" /\ Prune =>
    \A k \in dbqr.status.managed \ keys : Kept(k) => k \in doomed \/ errs

\* Only FinishFull ends the deletions of a pass with a result.
LEMMA OnlyFinishFull ==
  ASSUME [Next]_vars, pc = "prune", pc' = "defer"
  PROVE  FinishFull
<1>1. ASSUME NEW k \in Keys,
             \/ CleanupDelete(k) \/ PruneDelete(k) \/ ApplyRow(k) \/ RenderFails(k)
             \/ ApplyFails(k) \/ PruneFails(k) \/ ChildTouch(k) \/ ChildDelete(k)
             \/ ChildGone(k)
      PROVE  FALSE
  BY <1>1 DEF CleanupDelete, PruneDelete, ApplyRow, RenderFails, ApplyFails,
        PruneFails, ChildTouch, ChildDelete, ChildGone, SkipRow, passVars
<1>2. ASSUME \/ \E k, v : RowChange(k, v)
             \/ \E t : SpecEdit(t)
             \/ UserDelete \/ CacheSync \/ TimerFires \/ Crash \/ UNCHANGED vars
      PROVE  FALSE
  BY <1>2 DEF RowChange, SpecEdit, UserDelete, CacheSync, TimerFires, Crash, vars, passVars
<1>3. ASSUME \/ ReconcileGone \/ ReconcileDeleted \/ ReconcileInvalid \/ ReconcileBegin
             \/ CleanupFails \/ RemoveFinalizer \/ RemoveFinalizerFails
             \/ DecideFull \/ DecideElapsed \/ DecideNotDue \/ DecideDetected \/ SkipSync
             \/ QueryFails \/ TemplateInvalid \/ QueryRead \/ CollectStale
             \/ DeferSkip \/ DeferWrite \/ DeferConflict \/ DeferGiveUp
      PROVE  FALSE
  BY <1>3 DEF ReconcileGone, ReconcileDeleted, ReconcileInvalid, ReconcileBegin, Dequeue,
        CleanupFails, RemoveFinalizer, RemoveFinalizerFails, DecideFull, DecideElapsed,
        DecideNotDue, DecideDetected, SkipSync, QueryFails, TemplateInvalid, QueryRead,
        CollectStale, DeferSkip, DeferWrite, DeferConflict, DeferGiveUp
<1> QED
  BY <1>1, <1>2, <1>3 DEF Next, Worker, WorkerFaults, Environment

\* Every step preserves DropInv, unless a Get of a child can fail.
LEMMA DropStep ==
  ASSUME "getFault" \notin Faults, TypeOK, DropInv, [Next]_vars
  PROVE  DropInv'
<1>a. dbqr.status.managed \subseteq Keys
  BY CRParts DEF TypeOK
<1>1. CASE pc' # "prune"
  BY <1>1 DEF DropInv
<1>2. CASE CollectStale
  <2>1. doomed' = {k \in dbqr.status.managed : Prune /\ Exists(k)} \ keys
    BY <1>2 DEF CollectStale, FailedGets, Fault
  <2> QED
    BY <1>2, <2>1 DEF CollectStale, DropInv, Kept, Exists, apiVars
<1>3. ASSUME NEW k \in Keys, PruneDelete(k) PROVE DropInv'
  <2>1. Shrunk /\ ~Kept(k)'
    BY <1>3, DeleteShrinks DEF PruneDelete
  <2>2. dbqr'.status.managed = dbqr.status.managed
    BY <1>3 DEF PruneDelete, TypeOK, CRType, StatusType
  <2> QED
    BY <1>3, <1>a, <2>1, <2>2 DEF PruneDelete, DropInv, Shrunk
<1>4. ASSUME NEW k \in Keys, PruneFails(k) PROVE DropInv'
  BY <1>4 DEF PruneFails, DropInv
<1>5. ASSUME NEW k \in Keys, ChildTouch(k) \/ ChildDelete(k) \/ ChildGone(k)
      PROVE  DropInv'
  <2>1. \A j \in Keys : Kept(j)' => Kept(j)
    <3>1. CASE ChildTouch(k)
      BY <3>1 DEF ChildTouch, Exists, Kept, TypeOK
    <3>2. CASE ChildDelete(k) \/ ChildGone(k)
      BY <3>2, DeleteShrinks DEF ChildDelete, Shrunk
    <3> QED
      BY <1>5, <3>1, <3>2
  <2> QED
    BY <1>5, <1>a, <2>1 DEF ChildTouch, ChildDelete, ChildGone, DropInv, passVars
<1>6. CASE \/ \E k \in Keys, v \in Vals \cup {None} : RowChange(k, v)
           \/ \E t \in Specs : SpecEdit(t)
           \/ UserDelete \/ CacheSync \/ TimerFires \/ UNCHANGED vars
  <2>1. UNCHANGED <<children, pc, dbqr, keys, doomed, errs>>
    BY <1>6 DEF RowChange, SpecEdit, UserDelete, CacheSync, TimerFires, apiVars,
          passVars, vars
  <2> QED
    BY <2>1 DEF DropInv, Kept, Exists
<1>7. ASSUME \/ ReconcileGone \/ ReconcileDeleted \/ ReconcileInvalid \/ ReconcileBegin
             \/ CleanupFails \/ RemoveFinalizer \/ RemoveFinalizerFails \/ Crash
             \/ DeferSkip \/ DeferWrite \/ DeferConflict \/ DeferGiveUp
      PROVE  pc' # "prune"
  BY <1>7 DEF ReconcileGone, ReconcileDeleted, ReconcileInvalid, ReconcileBegin, Dequeue,
        CleanupFails, RemoveFinalizer, RemoveFinalizerFails, Crash, DeferSkip,
        DeferWrite, DeferConflict, DeferGiveUp, EndPass, ToDefer
<1>8. ASSUME \/ DecideFull \/ DecideElapsed \/ DecideNotDue \/ DecideDetected \/ SkipSync
             \/ QueryFails \/ TemplateInvalid \/ QueryRead \/ FinishFull
             \/ \E k \in Keys : \/ CleanupDelete(k) \/ ApplyRow(k)
                                \/ RenderFails(k) \/ ApplyFails(k)
      PROVE  pc' # "prune"
  BY <1>8 DEF DecideFull, DecideElapsed, DecideNotDue, DecideDetected, SkipSync,
        QueryFails, TemplateInvalid, QueryRead, FinishFull, CleanupDelete, ApplyRow,
        RenderFails, ApplyFails, SkipRow, ToDefer
<1> QED
  BY <1>1, <1>2, <1>3, <1>4, <1>5, <1>6, <1>7, <1>8
  DEF Next, Worker, WorkerFaults, Environment

\* Unless a Get of a child fails, no pass that drops a child it could not delete
\* is published as a success or counts as a completed poll.
THEOREM DropsShow ==
  ASSUME "getFault" \notin Faults
  PROVE  Spec => DroppedShows
<1> DEFINE Drops ==
             pc = "prune" /\ pc' = "defer" /\ Prune =>
               \A k \in dbqr.status.managed \ dbqr'.status.managed :
                 Kept(k) => /\ dbqr'.status.reason = "ProcessingError"
                            /\ dbqr'.status.polled = dbqr.status.polled
<1>1. Init => TypeOK /\ DropInv
  BY TypeInit DEF Init, DropInv
<1>2. TypeOK /\ DropInv /\ [Next]_vars => TypeOK' /\ DropInv'
  BY TypeStep, DropStep
<1>3. TypeOK /\ DropInv /\ [Next]_vars => [Drops]_vars
  <2> SUFFICES ASSUME TypeOK, DropInv, [Next]_vars, pc = "prune", pc' = "defer", Prune,
                      NEW k \in dbqr.status.managed \ dbqr'.status.managed, Kept(k)
               PROVE  /\ dbqr'.status.reason = "ProcessingError"
                      /\ dbqr'.status.polled = dbqr.status.polled
    OBVIOUS
  <2>1. FinishFull
    BY OnlyFinishFull
  <2>2. PICK S : dbqr' = [dbqr EXCEPT !.status = PassStatus(S)]
    BY <2>1 DEF FinishFull
  <2>3. dbqr'.status = PassStatus(S) /\ dbqr.status \in StatusType
    BY <2>2, StatusField, CRParts DEF TypeOK
  <2>4. dbqr'.status.managed = keys
    BY <2>3, PassStatusFields DEF TypeOK
  <2>5. errs
    BY <2>1, <2>4 DEF FinishFull, DropInv
  <2> QED
    BY <2>3, <2>5 DEF PassStatus, StatusType
<1> QED
  BY <1>1, <1>2, <1>3, PTL DEF Spec, DroppedShows

----------------------------------------------------------------------------
(* Nobody is parked: no CR is left without a pass while there is something *)
(* to do, for every number of children, with every fault, with caches that  *)
(* lag and specs that change.                                               *)

\* The cache has a change of the CR ahead that the predicate lets through.
Pending == SpecOrLifecycleChanged(cache, cr)

\* The pass works on a copy that differs from the stored CR in what decides
\* whether it asks for a further pass.
Behind == dbqr.gen # cr.gen \/ dbqr.del # cr.del

\* A copy of the CR is no newer than the stored CR, and has its spec if it has
\* its generation.
OlderCopy(c) ==
  /\ c.gen <= cr.gen
  /\ c.gen = cr.gen => c.spec = cr.spec
  /\ c.del => cr.del

\* NeverParked needs to know what a pass does not ask for: one that works on
\* the spec and the deletion timestamp of the stored CR asks for a further
\* pass if one is needed, and one that is behind has an event coming, because
\* an event is only consumed when a pass starts.
WakeInv ==
  /\ cacheFresh => cache = cr
  /\ cr.exists => cache.exists
  /\ OlderCopy(cache)
  /\ pc # "idle" => OlderCopy(dbqr) /\ (cr.exists /\ Behind => queued \/ Pending)
  /\ pc \notin {"idle", "cleanup"} => ~dbqr.del
  /\ pc = "defer" /\ ~requeue => dbqr.spec # "ok"
  /\ NeverParked

\* Two copies that differ in the status at most.
SameCR(c, d) ==
  /\ c.exists = d.exists /\ c.gen = d.gen /\ c.spec = d.spec
  /\ c.fin = d.fin /\ c.del = d.del

LEMMA NewStatus ==
  ASSUME NEW c \in CRType, NEW s
  PROVE  SameCR([c EXCEPT !.status = s], c)
BY DEF CRType, SameCR

LEMMA NewReason ==
  ASSUME NEW c \in CRType, NEW r
  PROVE  SameCR([c EXCEPT !.status.reason = r], c)
BY DEF CRType, SameCR

\* A step of a pass after which the pass goes on.
LEMMA WakeDuring ==
  ASSUME WakeInv, pc \notin {"idle", "cleanup"}, pc' \notin {"idle", "cleanup"},
         SameCR(cr', cr), SameCR(dbqr', dbqr), cache' = cache,
         cacheFresh' => cacheFresh /\ cr' = cr,
         queued => queued',
         pc' = "defer" => \/ requeue' \/ dbqr.spec # "ok"
                          \/ pc = "defer" /\ requeue' = requeue
  PROVE  WakeInv'
BY DEF WakeInv, SameCR, OlderCopy, Behind, Pending, SpecOrLifecycleChanged,
       NeverParked

\* The end of a pass: it asks for a further one, or it worked on a spec that
\* needs none, and then either the stored CR has that spec or an event of the
\* edit is coming.
LEMMA WakeEnd ==
  ASSUME WakeInv, pc # "idle", SameCR(cr', cr), cache' = cache, queued => queued',
         cacheFresh' => cacheFresh /\ cr' = cr,
         pc' = "idle", timer => timer',
         timer' \/ (~dbqr.del /\ dbqr.spec # "ok")
  PROVE  WakeInv'
<1>1. OlderCopy(cache)' /\ (cacheFresh' => cache' = cr') /\ (cr'.exists => cache'.exists)
  BY DEF WakeInv, OlderCopy, SameCR
<1>2. NeverParked'
  BY DEF WakeInv, NeverParked, WakeAhead, OlderCopy, Behind, Pending, SameCR,
              SpecOrLifecycleChanged
<1> QED
  BY <1>1, <1>2 DEF WakeInv

\* A step of the surroundings that leaves the CR alone.
LEMMA WakeAround ==
  ASSUME WakeInv, UNCHANGED <<crVars, pc, dbqr, requeue>>,
         queued => queued', timer => timer' \/ queued'
  PROVE  WakeInv'
BY DEF WakeInv, OlderCopy, Behind, Pending, NeverParked, WakeAhead, crVars

\* An edit that the predicate lets through.
LEMMA WakeEdit ==
  ASSUME WakeInv, UNCHANGED <<cache, pc, dbqr, requeue, queued>>, cacheFresh' = FALSE,
         SpecOrLifecycleChanged(cache, cr'),
         cr'.exists => cr.exists, OlderCopy(cache)',
         pc # "idle" => OlderCopy(dbqr)'
  PROVE  WakeInv'
BY DEF WakeInv, Pending, NeverParked, WakeAhead

\* The start of a pass consumes what woke it.
LEMMA WakeStart ==
  ASSUME WakeInv, Dequeue, UNCHANGED timer, SameCR(dbqr', cache),
         pc' \in {"cleanup", "decide", "defer"},
         pc' = "cleanup" \/ ~cache.del,
         pc' = "defer" => cache.spec # "ok"
  PROVE  WakeInv'
<1>1. UNCHANGED crVars
  BY DEF Dequeue
<1>2. OlderCopy(dbqr)' /\ OlderCopy(cache)'
  BY <1>1 DEF WakeInv, OlderCopy, SameCR, crVars
<1>3. Behind' => Pending'
  BY <1>1 DEF Behind, Pending, SpecOrLifecycleChanged, SameCR, crVars
<1> QED
  BY <1>1, <1>2, <1>3 DEF WakeInv, NeverParked, SameCR, crVars

LEMMA WakeStep ==
  ASSUME TypeOK, WakeInv, [Next]_vars
  PROVE  WakeInv'
<1>a. cr \in CRType /\ cache \in CRType /\ dbqr \in CRType
  BY DEF TypeOK
<1>b. /\ SameCR(cr, cr) /\ SameCR(dbqr, dbqr) /\ SameCR(cache, cache)
      /\ cr.gen \in Nat /\ cache.gen \in Nat /\ dbqr.gen \in Nat
  BY <1>a DEF SameCR, CRType
<1>1. CASE ReconcileGone
  BY <1>1 DEF ReconcileGone, Dequeue, EndPass, WakeInv, NeverParked, OlderCopy, crVars
<1>2. CASE ReconcileDeleted \/ ReconcileBegin
  BY <1>2, <1>b, WakeStart DEF ReconcileDeleted, ReconcileBegin
<1>3. CASE ReconcileInvalid
  <2>1. SameCR(dbqr', cache)
    BY <1>3, <1>a, NewReason DEF ReconcileInvalid
  <2> QED
    BY <1>3, <2>1, WakeStart DEF ReconcileInvalid, ToDefer
<1>4. CASE CleanupFails \/ RemoveFinalizerFails
  <2>1. pc' = "idle" /\ timer'
    BY <1>4 DEF CleanupFails, RemoveFinalizerFails, EndPass
  <2>2. UNCHANGED <<cr, cache, cacheFresh, queued>> /\ pc # "idle"
    BY <1>4 DEF CleanupFails, RemoveFinalizerFails, crVars
  <2> QED
    BY <1>4, <1>b, <2>1, <2>2, WakeEnd
<1>5. CASE RemoveFinalizer
  <2>1. ~cr'.exists /\ cr'.gen = cr.gen /\ cr'.spec = cr.spec /\ cr'.del = cr.del
    BY <1>5, <1>a DEF RemoveFinalizer, CRType
  <2> QED
    BY <1>5, <2>1 DEF RemoveFinalizer, EndPass, WakeInv, NeverParked, OlderCopy
<1>6. CASE DecideFull \/ DecideElapsed \/ DecideNotDue \/ QueryRead \/ CollectStale
  BY <1>6, <1>b, WakeDuring DEF DecideFull, DecideElapsed, DecideNotDue, QueryRead,
        CollectStale, crVars, qVars
<1>7. CASE DecideDetected
  <2>1. SameCR(cr', cr) /\ SameCR(dbqr', dbqr) /\ (cacheFresh' => cacheFresh /\ cr' = cr)
    BY <1>7, <1>a, <1>b, NewStatus DEF DecideDetected, StatusUpdateDbqr
  <2> QED
    BY <1>7, <2>1, WakeDuring DEF DecideDetected, qVars
<1>8. CASE SkipSync
  <2>1. PICK S : \/ UNCHANGED <<dbqr, cr, cacheFresh>>
                 \/ StatusUpdateDbqr(SkipStatus(S))
    BY <1>8 DEF SkipSync
  <2>2. SameCR(cr', cr) /\ SameCR(dbqr', dbqr) /\ (cacheFresh' => cacheFresh /\ cr' = cr)
    BY <2>1, <1>a, <1>b, NewStatus DEF StatusUpdateDbqr
  <2> QED
    BY <1>8, <2>2, WakeDuring DEF SkipSync, ToDefer, qVars
<1>9. CASE QueryFails \/ TemplateInvalid
  <2>1. SameCR(dbqr', dbqr)
    BY <1>9, <1>a, NewReason DEF QueryFails, TemplateInvalid
  <2>2. requeue' \/ dbqr.spec # "ok"
    BY <1>9 DEF QueryFails, TemplateInvalid, ToDefer
  <2> QED
    BY <1>9, <1>b, <2>1, <2>2, WakeDuring DEF QueryFails, TemplateInvalid, ToDefer,
          crVars, qVars
<1>10. CASE FinishFull
  <2>1. SameCR(dbqr', dbqr)
    BY <1>10, <1>a, NewStatus DEF FinishFull
  <2> QED
    BY <1>10, <1>b, <2>1, WakeDuring DEF FinishFull, ToDefer, crVars, qVars
<1>11. CASE DeferConflict
  BY <1>11, <1>b, WakeDuring DEF DeferConflict, crVars, qVars
<1>12. CASE DeferSkip \/ DeferWrite \/ DeferGiveUp
  <2>1. SameCR(cr', cr) /\ (cacheFresh' => cacheFresh /\ cr' = cr)
    BY <1>12, <1>a, <1>b, NewStatus DEF DeferSkip, DeferWrite, DeferGiveUp, crVars
  <2>2. (timer => timer') /\ (timer' \/ (~dbqr.del /\ dbqr.spec # "ok"))
    BY <1>12 DEF DeferSkip, DeferWrite, DeferGiveUp, EndPass, WakeInv
  <2> QED
    BY <1>12, <2>1, <2>2, WakeEnd DEF DeferSkip, DeferWrite, DeferGiveUp, EndPass, crVars
<1>13. ASSUME NEW k \in Keys, PruneDelete(k) PROVE WakeInv'
  <2>1. SameCR(dbqr', dbqr)
    BY <1>13, <1>a DEF PruneDelete, CRType, SameCR
  <2>2. queued => queued'
    BY <1>13, DeleteShrinks DEF PruneDelete, Shrunk
  <2> QED
    BY <1>13, <1>b, <2>1, <2>2, WakeDuring DEF PruneDelete, crVars
<1>14. ASSUME NEW k \in Keys,
              \/ CleanupDelete(k) \/ ApplyRow(k) \/ RenderFails(k) \/ ApplyFails(k)
              \/ PruneFails(k) \/ ChildTouch(k) \/ ChildDelete(k) \/ ChildGone(k)
       PROVE  WakeInv'
  <2>1. UNCHANGED <<crVars, pc, dbqr, requeue, timer>>
    BY <1>14 DEF CleanupDelete, ApplyRow, RenderFails, ApplyFails, PruneFails, SkipRow,
          ChildTouch, ChildDelete, ChildGone, passVars, qVars
  <2>2. queued => queued'
    <3>1. CASE Delete(k) \/ ChildGone(k)
      BY <3>1, DeleteShrinks DEF Shrunk
    <3> QED
      BY <1>14, <3>1 DEF CleanupDelete, ApplyRow, RenderFails, ApplyFails, PruneFails,
            SkipRow, ChildTouch, ChildDelete, ChildEvent, ChildUpdateEvent, qVars
  <2> QED
    BY <2>1, <2>2, WakeAround
<1>15. CASE CacheSync
  <2>1. /\ cache' = cr /\ cr' = cr /\ (queued' <=> queued \/ Pending)
        /\ UNCHANGED <<timer, pc, dbqr, requeue>>
    BY <1>15 DEF CacheSync, Pending, passVars
  <2>2. OlderCopy(cache)' /\ (pc # "idle" => OlderCopy(dbqr)')
    BY <1>b, <2>1 DEF WakeInv, OlderCopy
  <2>3. pc # "idle" => (cr'.exists /\ Behind' => queued')
    BY <2>1 DEF WakeInv, Behind
  <2>4. NeverParked'
    BY <2>1 DEF WakeInv, NeverParked, WakeAhead, Pending
  <2> QED
    BY <2>1, <2>2, <2>3, <2>4 DEF WakeInv
<1>16. CASE TimerFires \/ UNCHANGED vars
  BY <1>16, WakeAround DEF TimerFires, passVars, vars, crVars, qVars
<1>17. CASE Crash
  BY <1>17, <1>b DEF Crash, WakeInv, NeverParked, WakeAhead, OlderCopy
<1>18. CASE UserDelete
  <2>1. cr'.del /\ cr'.gen = cr.gen /\ cr'.spec = cr.spec /\ cr.exists /\ ~cr.del
    BY <1>18, <1>a DEF UserDelete, CRType
  <2> QED
    BY <1>18, <2>1, WakeEdit DEF UserDelete, WakeInv, OlderCopy, SpecOrLifecycleChanged,
          qVars
<1>19. ASSUME NEW s \in Specs, SpecEdit(s) PROVE WakeInv'
  <2>1. cr'.gen = cr.gen + 1 /\ cr'.del = cr.del /\ cr.exists
    BY <1>19, <1>a DEF SpecEdit, CRType
  <2>2. OlderCopy(cache)' /\ (pc # "idle" => OlderCopy(dbqr)') /\ cache.gen # cr'.gen
    BY <1>19, <1>b, <2>1 DEF SpecEdit, WakeInv, OlderCopy
  <2> QED
    BY <1>19, <2>1, <2>2, WakeEdit DEF SpecEdit, SpecOrLifecycleChanged, qVars
<1>20. ASSUME NEW k \in Keys, NEW v \in Vals \cup {None}, RowChange(k, v)
       PROVE  WakeInv'
  BY <1>20, WakeAround DEF RowChange, passVars, qVars
<1> QED
  BY <1>1, <1>2, <1>3, <1>4, <1>5, <1>6, <1>7, <1>8, <1>9, <1>10, <1>11, <1>12,
     <1>13, <1>14, <1>15, <1>16, <1>17, <1>18, <1>19, <1>20
  DEF Next, Worker, WorkerFaults, Environment

\* Whatever goes wrong, a CR with a good spec and one that is being deleted
\* always have a pass running or one coming: no path without RequeueAfter, no
\* crash and no pass over an outdated copy of the CR ends its polling or its
\* deletion.
THEOREM NobodyIsParked == Spec => []NeverParked
<1>1. Init => WakeInv
  <2> SUFFICES ASSUME Init PROVE WakeInv
    OBVIOUS
  <2>1. cr.gen = 1 /\ cache = cr /\ queued /\ pc = "idle"
    BY DEF Init, NoCR
  <2> QED
    BY <2>1 DEF WakeInv, OlderCopy, NeverParked, WakeAhead
<1>2. TypeOK /\ WakeInv /\ [Next]_vars => WakeInv'
  BY WakeStep
<1>3. WakeInv => NeverParked
  BY DEF WakeInv
<1> QED
  BY <1>1, <1>2, <1>3, TypeCorrect, PTL DEF Spec
=============================================================================
