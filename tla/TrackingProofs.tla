--------------------------- MODULE TrackingProofs ---------------------------
(***************************************************************************)
(* The list of children through a reconcile pass.  If every row can be     *)
(* applied, pruning deletes no child a row asks for, whatever else fails.  *)
(* If the faults of Quiet are absent, no child is ever forgotten and a     *)
(* pruning pass leaves exactly the children of the rows; children that are *)
(* going, deleted but held by a finalizer of their own, do not count as    *)
(* left.  Both assumptions are needed: a row that cannot be applied prunes *)
(* its live child (the run prune_live_child); a child that could not be    *)
(* read or deleted, a lost status write, a pass over a stale copy of the   *)
(* CR and a crash each make the operator forget one, and so does a row     *)
(* that vanishes without prune.                                            *)
(***************************************************************************)
EXTENDS ReconcileProofs

EveryRow == Unrenderable = {} /\ "applyFault" \notin Faults

Quiet ==
  /\ Prune
  /\ Faults \cap {"getFault", "deleteFault", "statusLost", "staleStart", "crash"} = {}

\* The children that exist and that nobody has asked to go.
Staying == {k \in Keys : Kept(k)}

\* The pass works with the ManagedResources that are stored.
InPass == {"cleanup", "decide", "skip", "query", "rows"}

NoKeysYet == pc \notin {"rows", "prune", "defer"} => keys = {}

(* Every row processed leaves its key behind, and what is to be pruned is  *)
(* not among the keys.                                                     *)
RowsInv ==
  /\ NoKeysYet
  /\ pc \in {"rows", "prune"} => keys = {k \in Keys : results[k] # None} \ todo
  /\ pc = "prune" => todo = {} /\ doomed \cap keys = {}

(* The copy a pass starts from is the stored one, what is not a key of the *)
(* pass is collected, and what the deferred write publishes, or finds      *)
(* published already, covers what is to stay.                              *)
TInv ==
  /\ cacheFresh => cache = cr
  /\ cr.exists => cache.exists
  /\ pc # "idle" => cache.status.managed = cr.status.managed
  /\ NoKeysYet
  /\ pc \in {"rows", "prune"} => keys \subseteq {k \in Keys : results[k] # None}
  /\ pc \in InPass => /\ dbqr.status.managed = cr.status.managed
                      /\ Staying \subseteq dbqr.status.managed \cup keys
  /\ pc = "prune" => Staying \subseteq keys \cup doomed
  /\ pc = "defer" => Staying \subseteq dbqr.status.managed
  /\ ChildrenTracked

----------------------------------------------------------------------------
(* The keys of a pass *)

\* The keys are complete after every step in which no row fails.
LEMMA RowsStep ==
  ASSUME EveryRow, TypeOK, RowsInv, [Next]_vars
  PROVE  RowsInv'
<1>1. CASE \/ ReconcileGone \/ RemoveFinalizer \/ RemoveFinalizerFails \/ CleanupFails
           \/ DeferSkip \/ DeferWrite \/ DeferGiveUp \/ Crash
  BY <1>1 DEF ReconcileGone, RemoveFinalizer, RemoveFinalizerFails, CleanupFails,
     DeferSkip, DeferWrite, DeferGiveUp, Crash, Dequeue, EndPass, RowsInv, NoKeysYet
<1>2. CASE ReconcileDeleted \/ ReconcileBegin \/ ReconcileInvalid
  BY <1>2 DEF ReconcileDeleted, ReconcileBegin, ReconcileInvalid, Dequeue, ToDefer, RowsInv, NoKeysYet
<1>3. CASE DecideFull \/ DecideElapsed \/ DecideNotDue \/ DecideDetected
  BY <1>3 DEF DecideFull, DecideElapsed, DecideNotDue, DecideDetected, RowsInv, NoKeysYet
<1>4. CASE SkipSync \/ TemplateInvalid \/ QueryFails \/ FinishFull \/ DeferConflict
  BY <1>4 DEF SkipSync, TemplateInvalid, QueryFails, FinishFull, DeferConflict,
     ToDefer, RowsInv, NoKeysYet
<1>5. CASE QueryRead
  BY <1>5 DEF QueryRead, RowsInv, NoKeysYet
<1>6. ASSUME NEW k \in Keys, ApplyRow(k) PROVE RowsInv'
  <2>1. /\ pc = "rows" /\ k \in todo
        /\ keys' = keys \cup {k} /\ todo' = todo \ {k}
        /\ UNCHANGED <<pc, results>>
    BY <1>6 DEF ApplyRow
  <2> QED
    BY <2>1 DEF RowsInv, NoKeysYet, TypeOK
<1>7. ASSUME NEW k \in Keys, RenderFails(k) \/ ApplyFails(k) PROVE RowsInv'
  BY <1>7 DEF RenderFails, ApplyFails, Fault, EveryRow
<1>8. CASE CollectStale
  <2>1. PICK found, missed : doomed' = (found \ missed) \ keys
    BY <1>8 DEF CollectStale
  <2> QED
    BY <1>8, <2>1 DEF CollectStale, RowsInv, NoKeysYet
<1>9. ASSUME NEW k \in Keys, CleanupDelete(k) \/ PruneDelete(k) \/ PruneFails(k)
      PROVE  RowsInv'
  BY <1>9 DEF CleanupDelete, PruneDelete, PruneFails, RowsInv, NoKeysYet
<1>10. CASE \/ CacheSync \/ TimerFires \/ UserDelete
            \/ (\E s \in Specs : SpecEdit(s)) \/ UNCHANGED vars
  BY <1>10 DEF CacheSync, TimerFires, UserDelete, SpecEdit, vars, passVars, RowsInv, NoKeysYet
<1>11. ASSUME NEW k \in Keys, \/ ChildTouch(k) \/ ChildDelete(k)
                              \/ ChildGone(k)
                              \/ \E v \in Vals \cup {None} : RowChange(k, v)
       PROVE  RowsInv'
  BY <1>11 DEF ChildTouch, ChildDelete, ChildGone, RowChange, passVars, RowsInv, NoKeysYet
<1> QED
  BY <1>1, <1>2, <1>3, <1>4, <1>5, <1>6, <1>7, <1>8, <1>9, <1>10, <1>11
  DEF Next, Worker, WorkerFaults, Environment

LEMMA RowsInductive ==
  ASSUME EveryRow
  PROVE  Spec => [](TypeOK /\ RowsInv)
<1>1. Init => TypeOK /\ RowsInv
  BY TypeInit DEF Init, RowsInv, NoKeysYet
<1>2. TypeOK /\ RowsInv /\ [Next]_vars => TypeOK' /\ RowsInv'
  BY TypeStep, RowsStep
<1> QED
  BY <1>1, <1>2, PTL DEF Spec

\* Pruning never deletes a child whose row the query of the pass returned, as
\* long as every row can be applied (pruneStaleResources, C:871-906); nothing
\* is asked of the cache, the status writes, crashes or other writers.
THEOREM PruningIsSafe ==
  ASSUME EveryRow
  PROVE  Spec => PruneOnlyStale
<1>1. TypeOK /\ RowsInv /\ [Next]_vars
        => [pc = "prune" /\ pc' = "prune" =>
              \A k \in Keys : Kept(k) /\ ~Kept(k)' /\ k \in doomed \ doomed'
                                => results[k] = None]_vars
  BY DEF RowsInv, NoKeysYet
<1> QED
  BY <1>1, RowsInductive, PTL DEF Spec, PruneOnlyStale

----------------------------------------------------------------------------
(* Steps that add no child and leave the pass where it is *)

\* A step after which only children stay that stayed before.
LEMMA Shrinks ==
  ASSUME \A k \in Keys : Kept(k)' => Kept(k)
  PROVE  Staying' \subseteq Staying
BY DEF Staying

\* What the environment does to the CR's spec and to the children leaves the
\* invariant alone.
LEMMA TFrame ==
  ASSUME TInv, Staying' \subseteq Staying,
         UNCHANGED <<pc, dbqr, results, keys, cache>>,
         pc = "prune" => UNCHANGED doomed,
         cr'.status.managed = cr.status.managed,
         cr'.exists => cr.exists,
         cacheFresh' => cache' = cr'
  PROVE  TInv'
<1>1. Staying \subseteq Keys /\ Staying' \subseteq Keys
  BY DEF Staying
<1>2. ChildrenTracked => (cr.exists => Staying \subseteq cr.status.managed \cup keys)
  BY DEF ChildrenTracked, Staying
<1>3. (cr'.exists => Staying' \subseteq cr'.status.managed \cup keys') => ChildrenTracked'
  BY DEF ChildrenTracked, Staying
<1>4. ChildrenTracked'
  BY <1>2, <1>3 DEF TInv
<1>5. ~cr'.exists \/ cache'.exists
  BY DEF TInv
<1> QED
  BY <1>4, <1>5 DEF TInv, NoKeysYet, InPass

(* Steps that end the pass: what stays must be in the stored list by then. *)
LEMMA TIdle ==
  ASSUME Staying' \subseteq Staying, pc' = "idle", keys' = {},
         cr'.exists => cache'.exists /\ Staying \subseteq cr'.status.managed,
         cacheFresh' => cache' = cr'
  PROVE  TInv'
<1>1. ChildrenTracked'
  BY DEF ChildrenTracked, Staying
<1> QED
  BY <1>1 DEF TInv, NoKeysYet, InPass

(* Steps inside the pass, before the rows are there: neither the children  *)
(* nor the lists of them that the copies of the CR hold change.            *)
LEMMA TStay ==
  ASSUME TInv, Staying' = Staying,
         pc' \in {"cleanup", "decide", "skip", "query", "defer"},
         keys' = {}, keys = {},
         Staying \subseteq dbqr'.status.managed,
         dbqr'.status.managed = cr'.status.managed,
         cache'.status.managed = cr'.status.managed,
         cr'.exists => cache'.exists,
         cacheFresh' => cache' = cr'
  PROVE  TInv'
<1>1. ChildrenTracked'
  BY DEF ChildrenTracked, Staying
<1> QED
  BY <1>1 DEF TInv, NoKeysYet, InPass

\* Nothing a pass does to its copy of the status touches the list of
\* managed children, except that a full pass replaces it at its end.
LEMMA KeepsManaged ==
  ASSUME NEW c \in CRType
  PROVE  /\ \A r : [c EXCEPT !.status.reason = r].status.managed = c.status.managed
         /\ \A k \in Keys :
              [c EXCEPT !.status.versions[k] = 0].status.managed = c.status.managed
BY DEF CRType, StatusType

----------------------------------------------------------------------------
(* The invariant is inductive *)

LEMMA TStep ==
  ASSUME Quiet, TypeOK, TInv, [Next]_vars
  PROVE  TInv'
<1>a. cr \in CRType /\ cache \in CRType /\ dbqr \in CRType
  BY DEF TypeOK
<1>b. cr.exists => Staying \subseteq cr.status.managed \cup keys
  BY DEF TInv, ChildrenTracked, Staying
<1>c. \A f \in {"getFault", "deleteFault", "statusLost",
              "staleStart", "crash"} : f \notin Faults
  BY DEF Quiet
<1>d. UNCHANGED children => Staying' = Staying
  BY DEF Staying, Kept, Exists
<1>1. CASE ReconcileGone
  BY <1>1, <1>b, <1>d, TIdle DEF ReconcileGone, Dequeue, EndPass, TInv, NoKeysYet, crVars, apiVars
<1>2. CASE ReconcileDeleted \/ ReconcileBegin
  <2>1. /\ pc = "idle" /\ cacheFresh /\ cache.exists
        /\ UNCHANGED <<children, keys, cr, cache, cacheFresh>>
        /\ dbqr' = cache /\ pc' \in {"cleanup", "decide"}
    BY <1>2, <1>c DEF ReconcileDeleted, ReconcileBegin, Dequeue, crVars, apiVars
  <2> QED
    BY <2>1, <1>b, <1>d, TStay DEF TInv, NoKeysYet
<1>3. CASE ReconcileInvalid
  <2>1. /\ pc = "idle" /\ cacheFresh /\ cache.exists
        /\ UNCHANGED <<children, keys, cr, cache, cacheFresh>>
        /\ pc' = "defer"
    BY <1>3, <1>c DEF ReconcileInvalid, Dequeue, ToDefer, crVars, apiVars
  <2>2. dbqr'.status.managed = cache.status.managed
    BY <1>3, <1>a, KeepsManaged DEF ReconcileInvalid
  <2> QED
    BY <2>1, <2>2, <1>b, <1>d, TStay DEF TInv, NoKeysYet
<1>4. ASSUME NEW k \in Keys, \/ CleanupDelete(k) \/ ChildTouch(k)
                             \/ ChildDelete(k) \/ ChildGone(k)
      PROVE  TInv'
  <2>1. /\ UNCHANGED <<pc, dbqr, results, todo, keys, crVars>>
        /\ pc = "prune" => UNCHANGED doomed
    BY <1>4 DEF CleanupDelete, ChildTouch, ChildDelete, ChildGone, passVars, crVars
  <2>2. \A j \in Keys : Kept(j)' => Kept(j)
    <3>1. CASE Delete(k) \/ ChildGone(k)
      BY <3>1, DeleteShrinks DEF Shrunk
    <3>2. CASE ChildTouch(k)
      BY <3>2 DEF ChildTouch, Kept, Exists, TypeOK
    <3> QED
      BY <1>4, <3>1, <3>2 DEF CleanupDelete, ChildDelete
  <2> QED
    BY <2>1, <2>2, Shrinks, TFrame DEF TInv, crVars
<1>5. CASE CleanupFails \/ Crash
  BY <1>5, <1>c DEF CleanupFails, Crash, Fault
<1>6. CASE RemoveFinalizer
  <2>1. cr'.exists = FALSE
    BY <1>6, <1>a DEF RemoveFinalizer, CRType
  <2> QED
    BY <1>6, <2>1, <1>d, TIdle DEF RemoveFinalizer, EndPass, apiVars
<1>7. CASE RemoveFinalizerFails
  BY <1>7, <1>b, <1>d, TIdle DEF RemoveFinalizerFails, EndPass, TInv, NoKeysYet, apiVars, crVars
<1>8. CASE DecideFull \/ DecideElapsed \/ DecideNotDue
  <2>1. /\ pc = "decide" /\ pc' \in {"query", "skip"}
        /\ UNCHANGED <<children, keys, dbqr, crVars>>
    BY <1>8 DEF DecideFull, DecideElapsed, DecideNotDue, apiVars
  <2> QED
    BY <2>1, <1>d, TStay DEF TInv, NoKeysYet, InPass, crVars
<1>9. CASE DecideDetected
  <2>1. /\ pc = "decide" /\ pc' \in {"query", "skip"}
        /\ UNCHANGED <<children, keys, cache>>
        /\ dbqr' = [dbqr EXCEPT !.status = dbqr.status]
        /\ \/ cr' = cr /\ cacheFresh' = cacheFresh
           \/ cr' = [cr EXCEPT !.status = dbqr.status] /\ ~cacheFresh'
    BY <1>9 DEF DecideDetected, StatusUpdateDbqr, apiVars
  <2>2. /\ dbqr'.status.managed = dbqr.status.managed
        /\ cr'.status.managed = cr.status.managed /\ cr'.exists = cr.exists
    BY <2>1, <1>a, KeepsManaged DEF TInv, NoKeysYet, InPass, CRType
  <2> QED
    BY <2>1, <2>2, <1>d, TStay DEF TInv, NoKeysYet, InPass
<1>10. CASE SkipSync
  <2>1. PICK S : \/ UNCHANGED <<dbqr, cr, cacheFresh>>
                 \/ StatusUpdateDbqr(SkipStatus(S))
    BY <1>10 DEF SkipSync
  <2>2. /\ pc = "skip" /\ pc' = "defer" /\ UNCHANGED <<children, keys, cache>>
    BY <1>10 DEF SkipSync, ToDefer
  <2>3. SkipStatus(S).managed = dbqr.status.managed
    BY <1>a, SkipStatusFields
  <2>4. /\ dbqr'.status.managed = dbqr.status.managed
        /\ cr'.status.managed = cr.status.managed /\ cr'.exists = cr.exists
        /\ cacheFresh' => cr' = cr /\ cacheFresh
    BY <2>1, <2>2, <2>3, <1>a, KeepsManaged DEF StatusUpdateDbqr, TInv, NoKeysYet, InPass, CRType
  <2> QED
    BY <2>2, <2>4, <1>d, TStay DEF TInv, NoKeysYet, InPass
<1>11. CASE TemplateInvalid \/ QueryFails
  <2>1. PICK r : dbqr' = [dbqr EXCEPT !.status.reason = r]
    BY <1>11 DEF TemplateInvalid, QueryFails
  <2>2. /\ pc = "query" /\ pc' = "defer" /\ UNCHANGED <<children, keys, crVars>>
    BY <1>11 DEF TemplateInvalid, QueryFails, ToDefer, apiVars
  <2>3. dbqr'.status.managed = dbqr.status.managed
    BY <2>1, <1>a, KeepsManaged
  <2> QED
    BY <2>2, <2>3, <1>d, TStay DEF TInv, NoKeysYet, InPass, crVars
<1>12. CASE QueryRead
  <2>1. /\ pc = "query" /\ pc' = "rows" /\ UNCHANGED <<children, keys, dbqr, crVars>>
        /\ results' = rows /\ todo' = {k \in Keys : rows[k] # None}
    BY <1>12 DEF QueryRead, apiVars
  <2>2. ChildrenTracked'
    BY <2>1, <1>b, <1>d DEF ChildrenTracked, Staying, crVars
  <2> QED
    BY <2>1, <2>2, <1>d DEF TInv, NoKeysYet, InPass, crVars
<1>13. ASSUME NEW k \in Keys, ApplyRow(k) PROVE TInv'
  <2>1. /\ pc = "rows" /\ k \in todo
        /\ keys' = keys \cup {k} /\ todo' = todo \ {k}
        /\ UNCHANGED <<pc, dbqr, results, crVars>>
    BY <1>13 DEF ApplyRow
  <2>2. Staying' \subseteq Staying \cup {k}
    BY <1>13 DEF ApplyRow, Staying, Kept, Exists, TypeOK
  <2>3. ChildrenTracked'
    BY <2>1, <2>2, <1>b DEF ChildrenTracked, Staying, crVars
  <2>4. results[k] # None
    BY <2>1 DEF TypeOK
  <2> QED
    BY <2>1, <2>2, <2>3, <2>4 DEF TInv, NoKeysYet, InPass, crVars
<1>14. ASSUME NEW k \in Keys, RenderFails(k) \/ ApplyFails(k) \/ PruneFails(k)
       PROVE  TInv'
  <2>1. ~PruneFails(k)
    BY <1>c DEF PruneFails, Fault
  <2> QED
    BY <1>14, <2>1, <1>d, TFrame DEF RenderFails, ApplyFails, SkipRow, apiVars, crVars, TInv
<1>15. CASE CollectStale
  <2>1. /\ pc = "rows" /\ pc' = "prune" /\ todo = {}
        /\ UNCHANGED <<children, crVars, dbqr, results, todo, keys>>
    BY <1>15 DEF CollectStale, apiVars
  <2>2. doomed' = {k \in dbqr.status.managed : Exists(k)} \ keys
    BY <1>15, <1>c DEF CollectStale, FailedGets, Fault, Quiet
  <2>3. doomed' \cap keys = {} /\ Staying \subseteq keys \cup doomed'
    BY <2>1, <2>2 DEF TInv, NoKeysYet, InPass, Staying, Kept
  <2>4. ChildrenTracked'
    BY <2>1, <1>b, <1>d DEF ChildrenTracked, Staying, crVars
  <2> QED
    BY <2>1, <2>3, <2>4, <1>d DEF TInv, NoKeysYet, InPass, crVars
<1>16. ASSUME NEW k \in Keys, PruneDelete(k) PROVE TInv'
  <2>1. /\ pc = "prune" /\ k \in doomed /\ doomed' = doomed \ {k}
        /\ UNCHANGED <<pc, results, todo, keys, crVars>>
    BY <1>16 DEF PruneDelete
  <2>2. Staying' \subseteq Staying \ {k}
    BY <1>16, DeleteShrinks DEF PruneDelete, Shrunk, Staying
  <2>3. ChildrenTracked'
    BY <2>1, <2>2, <1>b DEF ChildrenTracked, Staying, crVars
  <2> QED
    BY <2>1, <2>2, <2>3 DEF TInv, NoKeysYet, InPass, crVars
<1>17. CASE FinishFull
  <2>1. PICK S : dbqr' = [dbqr EXCEPT !.status = PassStatus(S)]
    BY <1>17 DEF FinishFull
  <2>2. /\ pc = "prune" /\ pc' = "defer" /\ doomed = {}
        /\ UNCHANGED <<children, keys, crVars>>
    BY <1>17 DEF FinishFull, ToDefer
  <2>3. dbqr'.status = PassStatus(S) /\ PassStatus(S).managed = keys
    BY <2>1, <1>a, StatusField, PassStatusFields
  <2>4. ChildrenTracked'
    BY <2>2, <1>b, <1>d DEF ChildrenTracked, Staying, crVars
  <2> QED
    BY <2>2, <2>3, <2>4, <1>d DEF TInv, NoKeysYet, InPass, crVars
<1>18. CASE DeferSkip
  <2>1. cache.exists => cache.status.managed = dbqr.status.managed
    BY <1>18, <1>a, DesiredStatusFields DEF DeferSkip, NeedsWrite
  <2> QED
    BY <1>18, <2>1, <1>d, TIdle DEF DeferSkip, EndPass, TInv, NoKeysYet, crVars, apiVars
<1>19. CASE DeferWrite
  <2>1. cr'.status.managed = dbqr.status.managed /\ cr'.exists = cr.exists
    BY <1>19, <1>a, DesiredStatusFields, KeepsManaged DEF DeferWrite, CRType
  <2> QED
    BY <1>19, <2>1, <1>d, TIdle DEF DeferWrite, EndPass, TInv, NoKeysYet, apiVars
<1>20. CASE DeferGiveUp
  <2>1. ~cr.exists
    BY <1>20, <1>c DEF DeferGiveUp, Fault
  <2> QED
    BY <1>20, <2>1, <1>d, TIdle DEF DeferGiveUp, EndPass, TInv, NoKeysYet, crVars, apiVars
<1>21. CASE DeferConflict \/ TimerFires \/ UNCHANGED vars
  BY <1>21, <1>d, TFrame DEF DeferConflict, TimerFires, vars, passVars, apiVars,
     crVars, TInv
<1>22. CASE CacheSync
  <2>1. /\ UNCHANGED <<passVars, children, cr>> /\ cache' = cr
    BY <1>22 DEF CacheSync, apiVars
  <2>2. ChildrenTracked'
    BY <2>1, <1>b, <1>d DEF ChildrenTracked, Staying, passVars
  <2> QED
    BY <2>1, <2>2, <1>d DEF TInv, NoKeysYet, InPass, passVars
<1>23. ASSUME UserDelete \/ \E s \in Specs : SpecEdit(s) PROVE TInv'
  <2>1. /\ cr'.status = cr.status /\ cr.exists /\ ~cacheFresh'
        /\ UNCHANGED <<children, pc, dbqr, results, todo, keys, doomed, cache>>
    BY <1>23, <1>a DEF UserDelete, SpecEdit, CRType, apiVars
  <2> QED
    BY <2>1, <1>d, TFrame
<1>24. ASSUME NEW k \in Keys, NEW v \in Vals \cup {None}, RowChange(k, v)
       PROVE  TInv'
  BY <1>24, <1>d, TFrame DEF RowChange, passVars, crVars, TInv
<1> QED
  BY <1>1, <1>2, <1>3, <1>4, <1>5, <1>6, <1>7, <1>8, <1>9, <1>10, <1>11, <1>12,
     <1>13, <1>14, <1>15, <1>16, <1>17, <1>18, <1>19, <1>20, <1>21, <1>22, <1>23, <1>24
  DEF Next, Worker, WorkerFaults, Environment

LEMMA TInductive ==
  ASSUME Quiet
  PROVE  Spec => [](TypeOK /\ TInv)
<1>1. Init => TypeOK /\ TInv
  <2> SUFFICES ASSUME Init PROVE TInv
    BY TypeInit
  <2>1. Staying = {}
    BY DEF Init, Staying, Kept, Exists
  <2>2. ChildrenTracked
    BY <2>1 DEF ChildrenTracked, Staying
  <2> QED
    BY <2>1, <2>2 DEF Init, TInv, NoKeysYet, InPass
<1>2. TypeOK /\ TInv /\ [Next]_vars => TypeOK' /\ TInv'
  BY TypeStep, TStep
<1> QED
  BY <1>1, <1>2, PTL DEF Spec

\* No child is forgotten: what exists and is not going is in the stored
\* ManagedResources or in the keys of the pass in flight (C:676-682), whatever
\* users and other writers do and however late the informer cache is.
THEOREM ChildrenAreTracked ==
  ASSUME Quiet
  PROVE  Spec => []ChildrenTracked
<1>1. TInv => ChildrenTracked
  BY DEF TInv
<1> QED
  BY <1>1, TInductive, PTL

\* After a pass that pruned without errors every child without a row is gone
\* or going (collectAllChildResources and pruneStaleResources, C:871-948).
THEOREM StaleAreDeleted ==
  ASSUME Quiet
  PROVE  Spec => []StaleDeleted
<1>1. TypeOK /\ TInv => StaleDeleted
  BY DEF TInv, StaleDeleted, Staying
<1> QED
  BY <1>1, TInductive, PTL

----------------------------------------------------------------------------
(* The end of the CR *)

\* The finalizer keeps the CR stored.
FinKeeps == cr.fin => cr.exists

LEMMA FinStep ==
  ASSUME TypeOK, FinKeeps, [Next]_vars
  PROVE  FinKeeps'
<1>1. CASE cr' = cr
  BY <1>1 DEF FinKeeps
<1>2. ASSUME NEW s, cr' = [cr EXCEPT !.status = s] PROVE FinKeeps'
  BY <1>2 DEF TypeOK, CRType, FinKeeps
<1>3. ASSUME NEW s, SpecEdit(s) PROVE FinKeeps'
  BY <1>3 DEF SpecEdit, TypeOK, CRType, FinKeeps
<1>4. CASE UserDelete \/ RemoveFinalizer
  BY <1>4 DEF UserDelete, RemoveFinalizer, TypeOK, CRType, FinKeeps
<1>5. CASE DecideDetected \/ SkipSync \/ DeferWrite
  BY <1>1, <1>2, <1>5 DEF DecideDetected, SkipSync, DeferWrite, StatusUpdateDbqr
<1>6. ASSUME NEW k \in Keys,
             \/ CleanupDelete(k) \/ PruneDelete(k) \/ ApplyRow(k) \/ RenderFails(k)
             \/ ApplyFails(k) \/ PruneFails(k) \/ ChildTouch(k) \/ ChildDelete(k)
             \/ ChildGone(k)
      PROVE  FinKeeps'
  BY <1>1, <1>6 DEF CleanupDelete, PruneDelete, ApplyRow, RenderFails, ApplyFails,
        PruneFails, ChildTouch, ChildDelete, ChildGone, SkipRow, crVars
<1>7. ASSUME NEW k, NEW v, RowChange(k, v) PROVE FinKeeps'
  BY <1>1, <1>7 DEF RowChange, crVars
<1>8. CASE \/ ReconcileGone \/ ReconcileDeleted \/ ReconcileInvalid
           \/ ReconcileBegin \/ RemoveFinalizerFails \/ DecideFull
           \/ DecideElapsed \/ DecideNotDue \/ TemplateInvalid \/ QueryRead
           \/ CollectStale \/ FinishFull \/ DeferSkip \/ DeferConflict
           \/ DeferGiveUp \/ CleanupFails \/ QueryFails \/ CacheSync
           \/ TimerFires \/ Crash \/ UNCHANGED vars
  BY <1>1, <1>8 DEF ReconcileGone, ReconcileDeleted, ReconcileInvalid,
        ReconcileBegin, Dequeue, RemoveFinalizerFails, DecideFull,
        DecideElapsed, DecideNotDue, TemplateInvalid, QueryRead, CollectStale,
        FinishFull, DeferSkip, DeferConflict, DeferGiveUp, CleanupFails,
        QueryFails, CacheSync, TimerFires, Crash, crVars, vars
<1> QED
  BY <1>3, <1>4, <1>5, <1>6, <1>7, <1>8 DEF Next, Worker, WorkerFaults, Environment

\* With prune and without the faults that forget a child, a deleted CR takes
\* everything with it: when its finalizer goes, every child the operator made
\* for it is gone or going (C:312-336), whatever users edit and other writers
\* do, and whichever queries and rows failed before.  That it is gone, as
\* README.md:526-529 has it, does not hold: the run finalizer_get_error.
THEOREM NothingIsLeftBehind ==
  ASSUME Quiet
  PROVE  Spec => NothingLeftBehind
<1>1. Init => FinKeeps /\ CleanupInv
  BY DEF Init, FinKeeps, CleanupInv, NoCR
<1>2. /\ TypeOK /\ FinKeeps /\ CleanupInv /\ [Next]_vars
           => FinKeeps' /\ CleanupInv'
  BY FinStep, CleanupStep DEF Quiet
<1>3. TypeOK /\ TInv /\ FinKeeps /\ CleanupInv /\ [Next]_vars
        => [cr.fin /\ ~cr'.fin => \A k \in Keys : ~Kept(k)]_vars
  <2> SUFFICES ASSUME TypeOK, TInv, FinKeeps, CleanupInv, [Next]_vars,
                      cr.fin, ~cr'.fin
               PROVE  \A k \in Keys : ~Kept(k)
    OBVIOUS
  <2>1. RemoveFinalizer
    BY OnlyRemoveFinalizer
  <2>2. /\ pc = "cleanup" /\ doomed = {} /\ cur
        /\ keys = {} /\ cr.exists
    BY <2>1 DEF RemoveFinalizer, TInv, NoKeysYet, FinKeeps
  <2>3. \A k \in Keys : Kept(k) => k \in cr.status.managed
    BY <2>2 DEF TInv, ChildrenTracked
  <2> QED
    BY <2>2, <2>3 DEF CleanupInv
<1> QED
  BY <1>1, <1>2, <1>3, TInductive, PTL DEF Spec, NothingLeftBehind

=============================================================================
