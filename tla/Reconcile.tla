----------------------------- MODULE Reconcile -----------------------------
(***************************************************************************)
(* DatabaseQueryResourceReconciler.Reconcile for ONE DatabaseQueryResource *)
(* (CR), interleaved with everything that changes under it: the rows of    *)
(* the database, the users of the CR, other writers of the child objects,  *)
(* the informer cache the CR is read from, transient errors and crashes.   *)
(*                                                                         *)
(* Granularity: every API-server or database call whose outcome another    *)
(* actor can influence is a step of its own.  Applying one child is one    *)
(* step here; module ChildApply opens that step up and shows that it is    *)
(* an atomic overlay of the desired state.  Time is abstracted: when a     *)
(* timer fires and whether an interval has elapsed is a free choice here;  *)
(* module PollSchedule opens that choice up.                               *)
(*                                                                         *)
(* A resourceVersion is only ever compared for equality with the stored    *)
(* one, so a copy of the CR carries a Boolean saying whether it still      *)
(* matches: cacheFresh for the informer cache, cur for the pass's dbqr.    *)
(***************************************************************************)
EXTENDS Naturals, FiniteSets

CONSTANTS
  Keys,             \* child identities; row k renders to child k (getObjectKey)
  Vals,             \* what the rows can hold
  Unrenderable,     \* values on which the template fails to render or decode
  None,             \* no row / no object
  Prune,            \* spec.prune (GetPrune)
  ChangeDetection,  \* spec.changeDetection is set and enabled
  StatusTemplate,   \* spec.statusUpdateQueryTemplate is set
  Specs,            \* the specs that occur, see SpecKinds
  Webhook,          \* the validating webhook is installed (by now)
  Watched,          \* children with an owner reference whose GVK is watched
  Lingering,        \* children that outlive the delete call, see Delete
  Faults,           \* which of FaultKinds the environment may produce
  MaxEdits,         \* bound: changes of rows
  MaxGen,           \* bound: the CR's generation
  MaxTouches,       \* bound: foreign writes to children
  MaxFaults         \* bound: transient faults and operator restarts

SpecKinds == {"ok", "badInterval", "badTemplate"}

\* staleStart: a pass may read the CR from a cache that lags;
\* statusLost: the deferred status write may be given up.
FaultKinds == {"queryFault", "applyFault", "getFault", "deleteFault",
               "execFault", "statusLost", "staleStart", "crash"}

Reasons == {"None", "InvalidSpec", "DBConnectionFailed", "QueryFailed",
            "TemplateError", "ProcessingError", "Success",
            "ChildResourceChanged"}

ASSUME ConstantsAssumption ==
  /\ Unrenderable \subseteq Vals
  /\ None \notin Vals
  /\ Prune \in BOOLEAN /\ ChangeDetection \in BOOLEAN
  /\ StatusTemplate \in BOOLEAN /\ Webhook \in BOOLEAN
  /\ Specs \subseteq SpecKinds /\ "ok" \in Specs
  /\ Watched \subseteq Keys /\ Lingering \subseteq Keys
  /\ Faults \subseteq FaultKinds
  /\ MaxEdits \in Nat /\ MaxGen \in Nat \ {0} /\ MaxTouches \in Nat
  /\ MaxFaults \in Nat

\* A rendered child: the row's value under the spec of one generation.
\* The pair is never None, which is a model value.
Rendered == [row : Vals, gen : Nat]
ASSUME NoneAssumption == None \notin Rendered

\* DatabaseQueryResourceStatus.  versions[k] = 0: no entry for k;
\* polled: LastPollTime is set; reason: that of the Reconciled condition.
StatusType == [obsGen : Nat, managed : SUBSET Keys, versions : [Keys -> Nat],
               polled : BOOLEAN, reason : Reasons]

CRType == [exists : BOOLEAN, gen : Nat, spec : SpecKinds, fin : BOOLEAN,
           del : BOOLEAN, status : StatusType]

NoStatus == [obsGen |-> 0, managed |-> {}, versions |-> [k \in Keys |-> 0],
             polled |-> FALSE, reason |-> "None"]

NoCR == [exists |-> FALSE, gen |-> 0, spec |-> "ok", fin |-> FALSE,
         del |-> FALSE, status |-> NoStatus]

NoRows == [k \in Keys |-> None]

VARIABLES
  rows,        \* the database: the value of row k, or None
  children,    \* the API server's child objects: val (None: absent), ver, and
               \* going: it has a deletionTimestamp
  reported,    \* the child version last written back to the database
  cr,          \* the CR as the API server stores it
  cache,       \* the CR as the informer cache has it
  cacheFresh,  \* the cache holds the stored resourceVersion
  queued,      \* the work queue holds the request
  timer,       \* an AddAfter / AddRateLimited of the request is pending
  pc,          \* where the pass is
  dbqr,        \* the pass's copy of the CR
  cur,         \* dbqr holds the stored resourceVersion
  results,     \* what the query returned
  todo,        \* rows of results not processed yet
  keys,        \* managedResourceKeys
  errs,        \* rowProcessingErrors or pruneErrors is not empty
  doomed,      \* collected children still to be deleted
  dirty,       \* dbqr.Status holds a timestamp that is not persisted
  tries,       \* attempts left for the deferred status write
  requeue,     \* the Result of the pass asks for a later run
  used         \* how much of each bound is spent

apiVars  == <<rows, children, reported>>
crVars   == <<cr, cache, cacheFresh>>
qVars    == <<queued, timer>>
passVars == <<pc, dbqr, cur, results, todo, keys, errs, doomed, dirty,
              tries, requeue>>
vars     == <<apiVars, crVars, qVars, passVars, used>>

PCs == {"idle", "cleanup", "decide", "skip", "query", "rows", "prune", "defer"}

TypeOK ==
  /\ rows \in [Keys -> Vals \cup {None}]
  /\ children \in [Keys -> [val : Rendered \cup {None}, ver : Nat, going : BOOLEAN]]
  /\ reported \in [Keys -> Nat]
  /\ cr \in CRType /\ cache \in CRType /\ dbqr \in CRType
  /\ cacheFresh \in BOOLEAN /\ queued \in BOOLEAN /\ timer \in BOOLEAN
  /\ cur \in BOOLEAN /\ errs \in BOOLEAN /\ dirty \in BOOLEAN
  /\ requeue \in BOOLEAN
  /\ pc \in PCs
  /\ results \in [Keys -> Vals \cup {None}]
  /\ todo \subseteq {k \in Keys : results[k] # None}
  /\ keys \subseteq Keys /\ doomed \subseteq Keys
  /\ tries \in Nat
  /\ used \in [edits : Nat, touches : Nat, faults : Nat]

Exists(k) == children[k].val # None

\* The child exists and nobody has asked for its deletion.
Kept(k) == Exists(k) /\ ~children[k].going

----------------------------------------------------------------------------
(* Building blocks *)

\* One fault of kind f happens in this step.
Fault(f) ==
  /\ f \in Faults
  /\ used.faults < MaxFaults
  /\ used' = [used EXCEPT !.faults = @ + 1]

\* Child Gets that fail in this step: none, or one as a fault.
FailedGets(S, missed) ==
  \/ missed = {} /\ UNCHANGED used
  \/ \E k \in S : missed = {k} /\ Fault("getFault")

\* ValidateCreate and ValidateUpdate: a write of a CR, whoever makes it and
\* whatever it changes, is admitted only with a valid spec.  Deletions and
\* writes of the status subresource are not validated.
Admitted(spec) == Webhook => spec = "ok"

\* Creations and deletions of watched children wake the controller.
ChildEvent(k) == queued' = (queued \/ k \in Watched)

\* Updates may not: Owns combines its predicates with AND, so an update is
\* an event only if generation, annotations and labels all change.
ChildUpdateEvent(k) == queued' \in {queued, queued \/ k \in Watched}

\* A delete call that succeeds.  It is accepted, no more: a child with a
\* finalizer of its own, or deleted in the foreground, gets a deletionTimestamp,
\* an update that is no event, and exists until ChildGone.
Delete(k) ==
  \/ ~Kept(k) /\ UNCHANGED <<children, queued>>
  \/ /\ Kept(k) /\ k \in Lingering
     /\ children' = [children EXCEPT ![k].going = TRUE, ![k].ver = @ + 1]
     /\ UNCHANGED queued
  \/ /\ Kept(k) /\ k \notin Lingering
     /\ children' = [children EXCEPT ![k].val = None]
     /\ ChildEvent(k)

\* The pass returns.
EndPass(again) ==
  /\ pc' = "idle"
  /\ timer' = (timer \/ again)
  /\ dbqr' = NoCR
  /\ cur' = FALSE
  /\ results' = NoRows
  /\ todo' = {} /\ keys' = {} /\ doomed' = {}
  /\ errs' = FALSE /\ dirty' = FALSE /\ requeue' = FALSE
  /\ tries' = 0

\* The pass has its result; the deferred status write remains.
ToDefer(again) ==
  /\ pc' = "defer"
  /\ requeue' = again
  /\ tries' = 3

\* r.Status().Update(ctx, dbqr) in the middle of a pass, its error only
\* logged: lands if dbqr is current, leaves dbqr unsaved otherwise.
StatusUpdateDbqr(s) ==
  /\ dbqr' = [dbqr EXCEPT !.status = s]
  /\ cr' = IF cur THEN [cr EXCEPT !.status = s] ELSE cr
  /\ cacheFresh' = IF cur THEN FALSE ELSE cacheFresh
  /\ dirty' = (dirty \/ ~cur)

\* Bug: a child without an entry in ResourceVersions counts as unchanged.
BugReportKnown(d) ==
  {k \in d.status.managed : /\ StatusTemplate /\ Exists(k)
                            /\ d.status.versions[k] \notin {0, children[k].ver}}

\* The children updateStatusForChildResources does not skip.
Unreported(d) ==
  IF StatusTemplate
    THEN {k \in d.status.managed :
            Exists(k) /\ d.status.versions[k] # children[k].ver}
    ELSE {}

\* The status update queries ran for the children S; those of the others
\* failed.  In the database S is now reported at its current version.
Reported(S) ==
  /\ reported' = [k \in Keys |-> IF k \in S THEN children[k].ver ELSE reported[k]]
  /\ IF S = Unreported(dbqr) THEN UNCHANGED used ELSE Fault("execFault")

\* Bug: the version is remembered although its Exec failed.
BugRecordVersions(versions, S) ==
  [k \in Keys |-> IF k \in Unreported(dbqr) THEN children[k].ver ELSE versions[k]]

\* ... and dbqr.Status.ResourceVersions remembers it.
RecordVersions(versions, S) ==
  [k \in Keys |-> IF k \in S THEN children[k].ver ELSE versions[k]]

----------------------------------------------------------------------------
(* Initial states: a CR seen by the cache for the first time, its event    *)
(* queued; it may have been stored before the webhook was installed.       *)

Init ==
  /\ rows \in [Keys -> (Vals \ Unrenderable) \cup {None}]
  /\ children = [k \in Keys |-> [val |-> None, ver |-> 0, going |-> FALSE]]
  /\ reported = [k \in Keys |-> 0]
  /\ \E f \in BOOLEAN, s \in Specs :
       cr = [NoCR EXCEPT !.exists = TRUE, !.gen = 1, !.fin = f, !.spec = s]
  /\ cache = cr
  /\ cacheFresh = TRUE
  /\ queued = TRUE
  /\ timer = FALSE
  /\ pc = "idle" /\ dbqr = NoCR /\ cur = FALSE /\ results = NoRows
  /\ todo = {} /\ keys = {} /\ doomed = {}
  /\ errs = FALSE /\ dirty = FALSE /\ requeue = FALSE /\ tries = 0
  /\ used = [edits |-> 0, touches |-> 0, faults |-> 0]

----------------------------------------------------------------------------
(* Start of a pass: r.Get of the CR and the finalizer branch *)

Dequeue ==
  /\ pc = "idle"
  /\ queued
  /\ cacheFresh \/ "staleStart" \in Faults
  /\ queued' = FALSE
  /\ UNCHANGED <<apiVars, crVars>>

\* The CR is not found, or is being deleted without our finalizer.
ReconcileGone ==
  /\ Dequeue
  /\ ~cache.exists
  /\ EndPass(FALSE)
  /\ UNCHANGED used

\* Being deleted with our finalizer: collect the managed children.
ReconcileDeleted ==
  /\ Dequeue
  /\ cache.exists /\ cache.del
  /\ LET found == {k \in cache.status.managed : Exists(k)}
     IN  \E missed \in SUBSET found :
           /\ FailedGets(found, missed)
           /\ doomed' = found \ missed
  /\ pc' = "cleanup"
  /\ dbqr' = cache
  /\ cur' = cacheFresh
  /\ UNCHANGED <<timer, results, todo, keys, errs, dirty, tries, requeue>>

\* pollInterval does not parse: condition InvalidSpec, no requeue.
ReconcileInvalid ==
  /\ Dequeue
  /\ cache.exists /\ ~cache.del /\ cache.spec = "badInterval"
  /\ dbqr' = [cache EXCEPT !.status.reason = "InvalidSpec"]
  /\ cur' = cacheFresh
  /\ ToDefer(FALSE)
  /\ UNCHANGED <<timer, results, todo, keys, errs, doomed, dirty, used>>

ReconcileBegin ==
  /\ Dequeue
  /\ cache.exists /\ ~cache.del /\ cache.spec # "badInterval"
  /\ dbqr' = cache
  /\ cur' = cacheFresh
  /\ pc' = "decide"
  /\ UNCHANGED <<timer, results, todo, keys, errs, doomed, dirty, tries,
                 requeue, used>>

----------------------------------------------------------------------------
(* The finalizer path *)

\* The cleanup goes on to the next child, and to the finalizer, without
\* looking whether this one is gone.
CleanupDelete(k) ==
  /\ pc = "cleanup" /\ k \in doomed
  /\ Delete(k)
  /\ doomed' = doomed \ {k}
  /\ UNCHANGED <<rows, reported, crVars, timer, pc, dbqr, cur, results, todo,
                 keys, errs, dirty, tries, requeue, used>>

\* A failed delete returns the error: the request is retried with backoff.
CleanupFails ==
  /\ pc = "cleanup" /\ doomed # {}
  /\ Fault("deleteFault")
  /\ EndPass(TRUE)
  /\ UNCHANGED <<apiVars, crVars, queued>>

\* Bug: the update does not carry the resourceVersion of dbqr.
BugRemoveFinalizer ==
  /\ pc = "cleanup" /\ doomed = {}
  /\ cr' = [cr EXCEPT !.fin = FALSE, !.exists = FALSE]
  /\ cacheFresh' = FALSE
  /\ EndPass(FALSE)
  /\ UNCHANGED <<apiVars, cache, queued, used>>

\* r.Update of dbqr without the finalizer; with the deletionTimestamp set
\* the API server then drops the object.  It is an update like any other.
RemoveFinalizer ==
  /\ pc = "cleanup" /\ doomed = {}
  /\ cur /\ Admitted(dbqr.spec)
  /\ cr' = [cr EXCEPT !.fin = FALSE, !.exists = FALSE]
  /\ cacheFresh' = FALSE
  /\ EndPass(FALSE)
  /\ UNCHANGED <<apiVars, cache, queued, used>>

\* A stale resourceVersion, a CR that is gone, or a spec the webhook does not
\* admit: the error is returned and the request retried with backoff.
RemoveFinalizerFails ==
  /\ pc = "cleanup" /\ doomed = {}
  /\ ~cur \/ ~Admitted(dbqr.spec)
  /\ EndPass(TRUE)
  /\ UNCHANGED <<apiVars, crVars, queued, used>>

----------------------------------------------------------------------------
(* shouldReconcile *)

ForceFull ==
  \/ dbqr.status.obsGen < dbqr.gen
  \/ ~ChangeDetection
  \/ ~dbqr.status.polled

DecideFull ==
  /\ pc = "decide" /\ ForceFull
  /\ pc' = "query"
  /\ UNCHANGED <<apiVars, crVars, qVars, dbqr, cur, results, todo, keys, errs,
                 doomed, dirty, tries, requeue, used>>

\* pollInterval has elapsed since LastPollTime, or the detection query failed.
DecideElapsed ==
  /\ pc = "decide" /\ ~ForceFull
  /\ pc' = "query"
  /\ UNCHANGED <<apiVars, crVars, qVars, dbqr, cur, results, todo, keys, errs,
                 doomed, dirty, tries, requeue, used>>

\* changePollInterval has not elapsed since LastChangeCheckTime.
DecideNotDue ==
  /\ pc = "decide" /\ ~ForceFull
  /\ pc' = "skip"
  /\ UNCHANGED <<apiVars, crVars, qVars, dbqr, cur, results, todo, keys, errs,
                 doomed, dirty, tries, requeue, used>>

\* The detection query ran; LastChangeCheckTime is saved at once.
DecideDetected ==
  /\ pc = "decide" /\ ~ForceFull
  /\ pc' \in {"query", "skip"}
  /\ StatusUpdateDbqr(dbqr.status)
  /\ UNCHANGED <<apiVars, cache, qVars, cur, results, todo, keys, errs, doomed,
                 tries, requeue, used>>

SkipStatus(S) ==
  [dbqr.status EXCEPT !.versions = RecordVersions(dbqr.status.versions, S),
                      !.reason = "ChildResourceChanged"]

\* Skipped pass: only the status of the children is written back.
SkipSync ==
  /\ pc = "skip"
  /\ \E S \in SUBSET Unreported(dbqr) :
       /\ Reported(S)
       /\ IF S = {}
            THEN UNCHANGED <<dbqr, cr, cacheFresh, dirty>>
            ELSE StatusUpdateDbqr(SkipStatus(S))
  /\ ToDefer(TRUE)
  /\ UNCHANGED <<rows, children, cache, qVars, cur, results, todo, keys, errs,
                 doomed>>

----------------------------------------------------------------------------
(* The full pass *)

\* Bug: the error path forgets RequeueAfter.
BugQueryNotRequeued ==
  /\ pc = "query"
  /\ Fault("queryFault")
  /\ dbqr' = [dbqr EXCEPT !.status.reason = "QueryFailed"]
  /\ ToDefer(FALSE)
  /\ UNCHANGED <<apiVars, crVars, qVars, cur, results, todo, keys, errs,
                 doomed, dirty>>

\* Bug: the error path publishes an empty list of managed resources.
BugQueryForgets ==
  /\ pc = "query"
  /\ Fault("queryFault")
  /\ dbqr' = [dbqr EXCEPT !.status.reason = "QueryFailed", !.status.managed = {}]
  /\ ToDefer(TRUE)
  /\ UNCHANGED <<apiVars, crVars, qVars, cur, results, todo, keys, errs,
                 doomed, dirty>>

\* Secret, connection or query error; requeued after at most pollInterval.
QueryFails ==
  /\ pc = "query"
  /\ Fault("queryFault")
  /\ \E r \in {"DBConnectionFailed", "QueryFailed"} :
       dbqr' = [dbqr EXCEPT !.status.reason = r]
  /\ ToDefer(TRUE)
  /\ UNCHANGED <<apiVars, crVars, qVars, cur, results, todo, keys, errs,
                 doomed, dirty>>

\* The template does not parse: not requeued.
TemplateInvalid ==
  /\ pc = "query" /\ dbqr.spec = "badTemplate"
  /\ dbqr' = [dbqr EXCEPT !.status.reason = "TemplateError"]
  /\ ToDefer(FALSE)
  /\ UNCHANGED <<apiVars, crVars, qVars, cur, results, todo, keys, errs,
                 doomed, dirty, used>>

QueryRead ==
  /\ pc = "query" /\ dbqr.spec # "badTemplate"
  /\ results' = rows
  /\ todo' = {k \in Keys : rows[k] # None}
  /\ pc' = "rows"
  /\ UNCHANGED <<apiVars, crVars, qVars, dbqr, cur, keys, errs, doomed, dirty,
                 tries, requeue, used>>

Desired(k) == [row |-> results[k], gen |-> dbqr.gen]

\* Bug: the key of a child that is already up to date is not recorded.
BugApplyRow(k) ==
  /\ pc = "rows" /\ k \in todo /\ results[k] \notin Unrenderable
  /\ IF children[k].val = Desired(k)
       THEN UNCHANGED <<children, queued, keys>>
       ELSE /\ children' = [children EXCEPT ![k].val = Desired(k), ![k].ver = @ + 1]
            /\ ChildEvent(k)
            /\ keys' = keys \cup {k}
  /\ todo' = todo \ {k}
  /\ UNCHANGED <<rows, reported, crVars, timer, pc, dbqr, cur, results, errs,
                 doomed, dirty, tries, requeue, used>>

\* A row renders and its child is created, updated, or already up to date;
\* in all three cases its key joins managedResourceKeys.  A child that is
\* going is updated like any other.
ApplyRow(k) ==
  /\ pc = "rows" /\ k \in todo /\ results[k] \notin Unrenderable
  /\ IF children[k].val = Desired(k)
       THEN UNCHANGED <<children, queued>>
       ELSE /\ children' = [children EXCEPT ![k].val = Desired(k), ![k].ver = @ + 1]
            /\ IF Exists(k) THEN ChildUpdateEvent(k) ELSE ChildEvent(k)
  /\ keys' = keys \cup {k}
  /\ todo' = todo \ {k}
  /\ UNCHANGED <<rows, reported, crVars, timer, pc, dbqr, cur, results, errs,
                 doomed, dirty, tries, requeue, used>>

\* Any error on the row: recorded, the row skipped, its key NOT added.
SkipRow(k) ==
  /\ pc = "rows" /\ k \in todo
  /\ errs' = TRUE
  /\ todo' = todo \ {k}
  /\ UNCHANGED <<apiVars, crVars, qVars, pc, dbqr, cur, results, keys, doomed,
                 dirty, tries, requeue>>

\* The template does not render for the row, or not to a known object.
RenderFails(k) ==
  /\ results[k] \in Unrenderable
  /\ SkipRow(k)
  /\ UNCHANGED used

\* An API call for the child fails, or its update conflicts three times.
ApplyFails(k) ==
  /\ SkipRow(k)
  /\ Fault("applyFault")

\* Bug: the candidates are looked for among the children of this pass.
BugCollect ==
  /\ pc = "rows" /\ todo = {}
  /\ doomed' = {k \in keys : Exists(k)} \ keys
  /\ pc' = "prune"
  /\ UNCHANGED <<apiVars, crVars, qVars, dbqr, cur, results, todo, keys, errs,
                 dirty, tries, requeue, used>>

\* collectAllChildResources, and which of them pruneStaleResources deletes.
CollectStale ==
  /\ pc = "rows" /\ todo = {}
  /\ LET found == {k \in dbqr.status.managed : Prune /\ Exists(k)}
     IN  \E missed \in SUBSET found :
           /\ FailedGets(found, missed)
           /\ doomed' = (found \ missed) \ keys
  /\ pc' = "prune"
  /\ UNCHANGED <<apiVars, crVars, qVars, dbqr, cur, results, todo, keys, errs,
                 dirty, tries, requeue>>

\* Accepted, or NotFound.
PruneDelete(k) ==
  /\ pc = "prune" /\ k \in doomed
  /\ Delete(k)
  /\ dbqr' = [dbqr EXCEPT !.status.versions[k] = 0]
  /\ doomed' = doomed \ {k}
  /\ UNCHANGED <<rows, reported, crVars, timer, pc, cur, results, todo, keys,
                 errs, dirty, tries, requeue, used>>

\* Bug: the error of a failed delete is logged and not returned.
BugPruneFails(k) ==
  /\ pc = "prune" /\ k \in doomed
  /\ Fault("deleteFault")
  /\ doomed' = doomed \ {k}
  /\ UNCHANGED <<apiVars, crVars, qVars, pc, dbqr, cur, results, todo, keys,
                 errs, dirty, tries, requeue>>

\* A failed delete is recorded and the loop goes on.
PruneFails(k) ==
  /\ pc = "prune" /\ k \in doomed
  /\ Fault("deleteFault")
  /\ errs' = TRUE
  /\ doomed' = doomed \ {k}
  /\ UNCHANGED <<apiVars, crVars, qVars, pc, dbqr, cur, results, todo, keys,
                 dirty, tries, requeue>>

\* Bug: ResourceVersions is not cut down to the keys of this pass.
BugPassStatus(S) ==
  [dbqr.status EXCEPT
     !.managed  = keys,
     !.versions = RecordVersions(@, S),
     !.polled   = @ \/ ~errs,
     !.reason   = IF errs THEN "ProcessingError" ELSE "Success"]

\* The status the full pass leaves in dbqr: ManagedResources is replaced by
\* the keys of this pass, ResourceVersions is cut down to them, and only a
\* pass without errors sets LastPollTime.
PassStatus(S) ==
  [dbqr.status EXCEPT
     !.managed  = keys,
     !.versions = [k \in Keys |-> IF k \in keys THEN RecordVersions(@, S)[k] ELSE 0],
     !.polled   = @ \/ ~errs,
     !.reason   = IF errs THEN "ProcessingError" ELSE "Success"]

\* Children of the OLD ManagedResources are reported, then the status is set.
FinishFull ==
  /\ pc = "prune" /\ doomed = {}
  /\ \E S \in SUBSET Unreported(dbqr) :
       /\ Reported(S)
       /\ dbqr' = [dbqr EXCEPT !.status = PassStatus(S)]
  /\ dirty' = (dirty \/ ~errs)
  /\ ToDefer(TRUE)
  /\ UNCHANGED <<rows, children, crVars, qVars, cur, results, todo, keys, errs,
                 doomed>>

----------------------------------------------------------------------------
(* The deferred status write *)

\* Bug: publishes the generation found when the status is written.
BugDesiredStatus == [dbqr.status EXCEPT !.obsGen = cache.gen]

DesiredStatus == [dbqr.status EXCEPT !.obsGen = dbqr.gen]

NeedsWrite == cache.exists /\ (dirty \/ cache.status # DesiredStatus)

\* The CR is gone from the cache, or its status is already the desired one.
DeferSkip ==
  /\ pc = "defer" /\ ~NeedsWrite
  /\ EndPass(requeue)
  /\ UNCHANGED <<apiVars, crVars, queued, used>>

DeferWrite ==
  /\ pc = "defer" /\ NeedsWrite /\ cacheFresh
  /\ cr' = [cr EXCEPT !.status = DesiredStatus]
  /\ cacheFresh' = FALSE
  /\ EndPass(requeue)
  /\ UNCHANGED <<apiVars, cache, queued, used>>

\* Bug: the loop does not count its attempts down to an end.
BugDeferConflict ==
  /\ pc = "defer" /\ NeedsWrite /\ ~cacheFresh /\ cr.exists
  /\ tries' = tries - 1
  /\ UNCHANGED <<apiVars, crVars, qVars, pc, dbqr, cur, results, todo, keys,
                 errs, doomed, dirty, requeue, used>>

\* The copy from the cache is stale: conflict, read the cache again.
DeferConflict ==
  /\ pc = "defer" /\ NeedsWrite /\ ~cacheFresh /\ cr.exists
  /\ tries > 1
  /\ tries' = tries - 1
  /\ UNCHANGED <<apiVars, crVars, qVars, pc, dbqr, cur, results, todo, keys,
                 errs, doomed, dirty, requeue, used>>

\* Third conflict, CR deleted meanwhile, or another error: only logged.
DeferGiveUp ==
  /\ pc = "defer" /\ NeedsWrite
  /\ \/ ~cacheFresh /\ ~cr.exists /\ UNCHANGED used
     \/ ~cacheFresh /\ tries = 1 /\ "statusLost" \in Faults /\ UNCHANGED used
     \/ Fault("statusLost")
  /\ EndPass(requeue)
  /\ UNCHANGED <<apiVars, crVars, queued>>

----------------------------------------------------------------------------
(* The environment *)

\* Bug: GenerationChangedPredicate alone.
BugGenerationOnly(old, new) == old.gen # new.gen

\* specOrLifecycleChangedPredicate, and the Delete event of the CR.
SpecOrLifecycleChanged(old, new) ==
  \/ old.gen # new.gen
  \/ old.fin # new.fin
  \/ old.del # new.del
  \/ old.exists /\ ~new.exists

CacheSync ==
  /\ ~cacheFresh
  /\ cache' = cr
  /\ cacheFresh' = TRUE
  /\ queued' = (queued \/ SpecOrLifecycleChanged(cache, cr))
  /\ UNCHANGED <<apiVars, cr, timer, passVars, used>>

TimerFires ==
  /\ timer
  /\ timer' = FALSE
  /\ queued' = TRUE
  /\ UNCHANGED <<apiVars, crVars, passVars, used>>

\* The process dies at any point and a new one lists the CRs afresh.
Crash ==
  /\ Fault("crash")
  /\ pc' = "idle" /\ dbqr' = NoCR /\ cur' = FALSE /\ results' = NoRows
  /\ todo' = {} /\ keys' = {} /\ doomed' = {}
  /\ errs' = FALSE /\ dirty' = FALSE /\ requeue' = FALSE /\ tries' = 0
  /\ cache' = cr
  /\ cacheFresh' = TRUE
  /\ queued' = cr.exists
  /\ timer' = FALSE
  /\ UNCHANGED <<apiVars, cr>>

RowChange(k, v) ==
  /\ used.edits < MaxEdits /\ rows[k] # v
  /\ used' = [used EXCEPT !.edits = @ + 1]
  /\ rows' = [rows EXCEPT ![k] = v]
  /\ UNCHANGED <<children, reported, crVars, qVars, passVars>>

SpecEdit(s) ==
  /\ cr.exists /\ cr.gen < MaxGen /\ Admitted(s)
  /\ cr' = [cr EXCEPT !.gen = @ + 1, !.spec = s]
  /\ cacheFresh' = FALSE /\ cur' = FALSE
  /\ UNCHANGED <<apiVars, cache, qVars, pc, dbqr, results, todo, keys, errs,
                 doomed, dirty, tries, requeue, used>>

\* kubectl delete: at once without the finalizer, else deletionTimestamp.
\* The code does not rely on the deletion changing the generation.
UserDelete ==
  /\ cr.exists /\ ~cr.del
  /\ cr' = [cr EXCEPT !.del = TRUE, !.exists = cr.fin]
  /\ cacheFresh' = FALSE /\ cur' = FALSE
  /\ UNCHANGED <<apiVars, cache, qVars, pc, dbqr, results, todo, keys, errs,
                 doomed, dirty, tries, requeue, used>>

\* Another controller writes the child: its status, or its own annotations.
ChildTouch(k) ==
  /\ used.touches < MaxTouches /\ Exists(k)
  /\ used' = [used EXCEPT !.touches = @ + 1]
  /\ children' = [children EXCEPT ![k].ver = @ + 1]
  /\ ChildUpdateEvent(k)
  /\ UNCHANGED <<rows, reported, crVars, timer, passVars>>

\* Somebody else deletes the child.
ChildDelete(k) ==
  /\ used.touches < MaxTouches /\ Kept(k)
  /\ used' = [used EXCEPT !.touches = @ + 1]
  /\ Delete(k)
  /\ UNCHANGED <<rows, reported, crVars, timer, passVars>>

\* The last finalizer of a child that is going is removed.
ChildGone(k) ==
  /\ children[k].going
  /\ children' = [children EXCEPT ![k].val = None, ![k].going = FALSE]
  /\ ChildEvent(k)
  /\ UNCHANGED <<rows, reported, crVars, timer, passVars, used>>

----------------------------------------------------------------------------
(* The specification *)

\* What the worker does when no fault interferes.
Worker ==
  \/ ReconcileGone \/ ReconcileDeleted \/ ReconcileInvalid \/ ReconcileBegin
  \/ RemoveFinalizer \/ RemoveFinalizerFails
  \/ DecideFull \/ DecideElapsed \/ DecideNotDue \/ DecideDetected \/ SkipSync
  \/ TemplateInvalid \/ QueryRead \/ CollectStale \/ FinishFull
  \/ DeferSkip \/ DeferWrite \/ DeferConflict \/ DeferGiveUp
  \/ \E k \in Keys : \/ CleanupDelete(k) \/ PruneDelete(k)
                     \/ ApplyRow(k) \/ RenderFails(k)

WorkerFaults ==
  \/ CleanupFails \/ QueryFails
  \/ \E k \in Keys : ApplyFails(k) \/ PruneFails(k)

Environment ==
  \/ CacheSync \/ TimerFires \/ Crash \/ UserDelete
  \/ \E s \in Specs : SpecEdit(s)
  \/ \E k \in Keys : \/ ChildTouch(k) \/ ChildDelete(k) \/ ChildGone(k)
                     \/ \E v \in Vals \cup {None} : RowChange(k, v)

Next == Worker \/ WorkerFaults \/ Environment

Spec == Init /\ [][Next]_vars

\* The worker goroutine keeps running, the watch eventually delivers, timers
\* fire.  With change detection the interval elapses again and again, and
\* PollSchedule bounds how long that takes.
Fairness ==
  /\ WF_vars(Worker)
  /\ WF_vars(CacheSync)
  /\ WF_vars(TimerFires)
  /\ SF_vars(DecideElapsed)

FairSpec == Spec /\ Fairness

----------------------------------------------------------------------------
(* Properties.  C is internal/controller/databasequeryresource_controller.go. *)

\* Only what a pass over generation g applied may be published as success
\* for g: while the persisted status says Success for ObservedGeneration g,
\* every managed child that exists was rendered from generation g or later
\* (deferred status write, C:347-383, against a spec edited under the pass).
SuccessMeansApplied ==
  cr.status.reason = "Success" =>
    \A k \in cr.status.managed :
      Exists(k) => children[k].val.gen >= cr.status.obsGen

\* The finalizer is removed only when every child of the ManagedResources that
\* the API server stores at that moment is gone or going: a pass that cleaned up
\* from a stale copy of the CR must fail its Update (C:312-336).
FinalizerComplete ==
  [][cr.fin /\ ~cr'.fin => \A k \in cr.status.managed : ~Kept(k)]_vars

\* What the documentation says: the finalizer is removed once all managed
\* resources are deleted (README.md:526-529).
FinalizerWaits ==
  [][cr.fin /\ ~cr'.fin => \A k \in cr.status.managed : ~Exists(k)]_vars

\* A pruning operator that hears of every failure leaves nothing behind: when
\* the finalizer goes, every child that it ever made for the CR, managed or
\* not, is gone or going (the list the cleanup reads is written by other
\* passes, C:330 and C:676-682).
NothingLeftBehind ==
  [][cr.fin /\ ~cr'.fin => \A k \in Keys : ~Kept(k)]_vars

\* A version is remembered in ResourceVersions only after the database took
\* the status update for it, whatever fails or crashes (C:1010-1016).
VersionsReported ==
  \A k \in Keys : /\ cr.status.versions[k] <= reported[k]
                  /\ dbqr.status.versions[k] <= reported[k]

\* ResourceVersions never outlives ManagedResources (C:684-695), also when a
\* pass over a stale copy writes an older status back, so it does not grow with
\* every child there ever was.
VersionsManaged ==
  \A k \in Keys : cr.status.versions[k] # 0 => k \in cr.status.managed

\* A pass that drops a child from ManagedResources while the child is there
\* to stay, which a pruning pass does after a failed delete, does not pass for
\* a success: it publishes ProcessingError and sets no LastPollTime.  No later
\* pass will try that delete again (C:676-682, C:697-717, C:881-891).
DroppedShows ==
  [][pc = "prune" /\ pc' = "defer" /\ Prune =>
       \A k \in dbqr.status.managed \ dbqr'.status.managed :
         Kept(k) => /\ dbqr'.status.reason = "ProcessingError"
                    /\ dbqr'.status.polled = dbqr.status.polled]_vars

\* Pruning deletes no child whose row the query of this pass returned
\* (docs/core-concepts.mdx:95, C:871-906).
PruneOnlyStale ==
  [][pc = "prune" /\ pc' = "prune" =>
       \A k \in Keys : Kept(k) /\ ~Kept(k)' /\ k \in doomed \ doomed'
                         => results[k] = None]_vars

\* After a pruning pass without errors, every labelled child that is not gone
\* or going has its row in the results (docs/core-concepts.mdx:278).
StaleDeleted ==
  Prune /\ pc = "prune" /\ doomed = {} /\ ~errs =>
    \A k \in Keys : Kept(k) => results[k] # None

\* No child is ever forgotten: what exists and is not going is in the persisted
\* ManagedResources or in the keys of the pass in flight (C:676-682).
ChildrenTracked ==
  cr.exists => \A k \in Keys : Kept(k) => k \in cr.status.managed \cup keys

\* A further pass is coming: queued, or when the timer fires, or when the
\* cache hears of a change of the CR that the watch predicate lets through.
WakeAhead == queued \/ timer \/ SpecOrLifecycleChanged(cache, cr)

\* No CR is parked while there is something to do: between passes a further
\* one is coming to a CR with a good spec and to one that is being deleted.
\* Paths that return without RequeueAfter (C:391, C:497), errors, crashes and
\* passes over a copy older than the last edit must not lose it, nor may the
\* predicate that drops the controller's own status writes (C:1105).
NeverParked ==
  pc = "idle" /\ cr.exists /\ (cr.spec = "ok" \/ cr.del) => WakeAhead

\* The CR is there to be reconciled.
Live == cr.exists /\ ~cr.del /\ cr.spec = "ok"

\* Once rows, spec and faults are quiet, every renderable row has its child,
\* rendered from the current generation, and keeps it (C:285-722).
RowsApplied ==
  <>[](Live => \A k \in Keys :
         rows[k] \notin Unrenderable \cup {None}
           => children[k].val = [row |-> rows[k], gen |-> cr.gen])

\* A CR deleted with the finalizer eventually goes away, even if its spec
\* stopped the polling, its cache lagged or the operator restarted
\* (C:301-340, and the watch predicate C:1105-1123).
DeletionCompletes == cr.del ~> ~cr.exists

\* The database eventually has the status of the final version of every
\* managed child (C:643-673 and C:403-445).
StatusReported ==
  StatusTemplate =>
    <>[](Live => \A k \in cr.status.managed :
           Exists(k) => reported[k] = children[k].ver)

=============================================================================
