# db-query-operator: TLA+ models and proofs

The operator reconciles `DatabaseQueryResource` objects (below: the CR). It runs
the CR's SQL query, renders one Kubernetes object ("child") per row, applies the
children, deletes those whose row is gone, and writes the status of the children
back to the database. This directory models its control logic, checks the models
with TLC, and proves with TLAPS every safety property that the passing runs check,
two refinements among them.

In this document and in the comments of the modules, `C` is
`src/internal/controller/databasequeryresource_controller.go`.

## 1. The system

| Component | State it keeps | Operations | What must be right |
|---|---|---|---|
| Reconcile loop, `Reconcile` (C:285-722) | the CR's status: `observedGeneration`, `managedResources`, `resourceVersions`, `lastPollTime`, `lastChangeCheckTime`, the `Reconciled` condition | pass start, finalizer path, full pass, skipped pass, deferred status write | a published success is true; no child is forgotten or wrongly deleted; rows reach the cluster; a deleted CR goes away |
| Applying one child (C:78-281, 555-625) | the child's fields and its `last-applied-config` annotation | compare, create by Server-Side Apply, overlay and update, conflict retry | other writers' data survives; the record is honest; passes stop writing when nothing changes |
| Pruning and cleanup (C:871-949) | none of its own; reads `managedResources` | collect, delete | exactly the stale children go; the finalizer stays until all of them are asked to go |
| Poll schedule and change detection (C:1156-1324) | the two timestamps, the pending `RequeueAfter` | decide full / skip, detection query | full passes are timely; no change is lost for good; polling never dies |
| Status write-back (C:951-1025) | `resourceVersions` | render and `Exec` one query per child | every final version is reported, none is skipped because of a failure |
| Watch wiring (C:1058-1123) | none | predicates, `Owns` | spec, deletion and finalizer changes wake the controller, its own status writes do not |
| PostgreSQL client (`internal/util/postgres_client.go`) | a session with the primary, and one with the replica if there is one | `Connect`, `QueryRead` (a batch, then a select), `Exec`, `Close`, `splitStatements` | no session leaks; the select sees its setup; statements are cut where PostgreSQL ends them |
| Database configuration (C:724-868) | none | `getDBConfig`, `parsePostgreSQLURI` | one source per configuration, no silent substitutes |
| Identifier sanitising (C:1322-1374) | none | `sanitizePGIdentifier` | the query names the table the user named |
| Admission webhook (`internal/webhook`) | none | validates a spec on create and update | what it lets through keeps being polled; it stands in nobody's way |
| GVK list (`internal/util/gvk.go`) and object keys (C:1027) | none | `ParseGVKs`, `getObjectKey`, parsing of keys | a key leads back to its child |
| Template functions (`funcs.go`) | none | wrappers around formatting libraries | - |
| Start-up (`main.go`) | none | flags, manager, leader election | - |

Interactions. One worker runs at most one pass per CR at a time. It reads the CR
from the manager's informer **cache**, which may lag behind the API server, but
reads children from the API server. It writes the CR's status at three places,
two in the middle of a pass (C:439, 1247) and one deferred (C:368). The work queue
is fed by CR events that pass `specOrLifecycleChangedPredicate`, by creations and
deletions of watched children, and by the `RequeueAfter` or error of a pass. Every
pass opens its own clients: one for the change detection query, one for the query,
one for each child whose status it writes back; nothing pools them. The rows change
in the database at any time; users edit and delete the CR; other controllers write
and delete the children; several CRs may render the same child.

What is hard here, and so what the properties are about:

* a pass acts on, and writes back, a copy of the CR that may be stale;
* any API or database call can fail, and each failure path keeps different parts
  of the state; the process can die between any two calls;
* the child is changed by others between the operator's read and its write;
* a deletion that the API server accepts is not yet done: the child may have
  finalizers of its own, and the operator does not look again;
* the decision to skip a pass rests on two timestamps that are stored with the
  resolution of a second, are saved at different moments, and can be lost;
* whether anything wakes the controller again depends on each return path;
* sessions are a bounded resource that the query and the children of one pass
  share, and credentials change while a pass holds a copy of them;
* texts are taken apart by hand-written scanners (statements, identifiers, keys)
  that have to agree with PostgreSQL or with each other.

The list with line numbers is `hazards` in `PROJECT.json`.

## 2. Modules

| Module | Models |
|---|---|
| `Reconcile` | the whole reconcile loop for one CR, its cache and queue, the webhook's say on updates, the children, the rows, users, faults, restarts |
| `ChildObject` | a child object and the pure functions applied to it |
| `AtomicApply` | abstract specification: each write of the operator is one atomic overlay of the live object |
| `ChildApply` | processing of one row, call by call, against other writers; refines `AtomicApply` |
| `PollSchedule` | the schedule of passes against a clock, with clock skew |
| `StatusLedger` | abstract specification: which version of which child the database was told, and which the CR's status remembers |
| `DbConnections` | the sessions of a pass: detection, query, status write-back child by child; secrets, replicas, session limit; refines `StatusLedger` |
| `SharedChild` | one child that several CRs render: label, owner, pruning, cleanup, garbage collection |
| `Text` | the Go string functions the scanners use |
| `SqlStatements` | `splitStatements`, and PostgreSQL's own reading of a text |
| `Identifiers` | `sanitizePGIdentifier`, `ParseGVKs`, `getObjectKey` and the parsing of keys; PostgreSQL's reading of names |
| `Admission` | `validateSpec`, and the intervals the reconciler makes of an admitted spec |
| `DbConfig` | `getDBConfig`, `getValue`, `parsePostgreSQLURI` |
| `MCChildApply` | constants for TLC |
| `MCFunctions` | calls the pure functions on every input of a small domain |
| `ReconcileProofs`, `TrackingProofs`, `ChildApplyProofs`, `PollScheduleProofs`, `DbConnectionsProofs`, `SharedChildProofs`, `FunctionProofs` | theorems and proofs |
| `TextProofs` | lemmas about texts of any length, for `FunctionProofs` |

The detailed modules are several resolutions of one program.
`Reconcile.ApplyRow` does in one step what `ChildApply` does in several; that it
is one step is the refinement `ChildApply!WritesAreAtomic`. `Reconcile` leaves to
chance whether an interval has elapsed (`DecideElapsed`, `DecideNotDue`,
`DecideDetected`) and when a timer fires; `PollSchedule` has the clock that
decides it and shows that an interval does elapse, and within which time.
`Reconcile` sees a query or an `Exec` that works or fails; `DbConnections` has the
sessions and credentials that decide which. It implements `StatusLedger`: there a
child has a version, the database has been told one, the stored status remembers
one, and the database is never put back nor the status ahead of it. `SharedChild` keeps of a pass of
`Reconcile` what another CR can notice. The timer of `Reconcile` relies on a
positive `RequeueAfter`; that admitted specs always give one is
`AdmittedKeepsPolling`.

### Reconcile: state and actions against the code

* `cr` is the CR the API server stores, `cache` the informer's copy, `dbqr` the
  pass's copy. A `resourceVersion` is only compared for equality with the stored
  one, so the two copies carry a Boolean instead: `cacheFresh` and `cur`. A status
  write lands only if its copy is fresh, and makes the copies stale.
* `children[k]` is the child that row `k` renders to; its `val` names the row value
  and the generation of the spec it was rendered from, its `ver` the
  `resourceVersion`, and `going` says that it has a deletionTimestamp. `reported[k]`
  is what the database has been told.
* `Delete(k)` is a delete call that returns nil: the API server has accepted it. A
  child in `Lingering` stands for one with a finalizer of its own (an Argo CD
  Application, say) or deleted in the foreground: it is `going` from then on, is still
  found by Gets and updated by later passes, and vanishes in a step of its own,
  `ChildGone`, whenever that comes, also after the CR. The others vanish at once.
  `Exists(k)` is what a Get finds, `Kept(k)` that nobody has asked for the
  child's deletion yet.
* `keys`, `doomed`, `errs`, `todo` are the locals `managedResourceKeys`, the
  collected children still to be deleted, `rowProcessingErrors` with
  `pruneErrors`, and the rest of the loop over the results.
* `ReconcileGone/Deleted/Invalid/Begin` are the Get of the CR and the branches up
  to `shouldReconcile`; `CleanupDelete/CleanupFails/RemoveFinalizer(Fails)` the
  finalizer path; `Decide*` the decision; `SkipSync` the skipped pass;
  `QueryFails`, `TemplateInvalid`, `QueryRead`, `ApplyRow`, `RenderFails`,
  `ApplyFails`, `CollectStale`, `PruneDelete`, `PruneFails`, `FinishFull` the full
  pass; `Defer*` the deferred status write with its three attempts. Steps end
  where another actor can change the outcome of the next call.
* The error returns differ in what the Result asks for, and the model keeps that:
  `ToDefer(FALSE)` for an invalid interval or template (only an event can wake the
  CR), `ToDefer(TRUE)` otherwise.
* `Admitted` is the validating webhook, with `Webhook` TRUE: users' edits and the
  operator's removal of the finalizer pass through it, status writes and deletions
  do not. A CR may have been stored before the webhook was installed.
* `ChildEvent` and `ChildUpdateEvent` are the predicates of `Owns`: controller-runtime
  combines them with AND, so creations and deletions of a watched child queue the
  CR, and an update does so only if generation, annotations AND labels change.
* `"staleStart"` in `Faults` lets a pass begin while the cache lags. Without it the
  cache still lags DURING passes, which is enough for the conflicts.

### ChildApply

`want` is the object rendered for this pass, `copy` the object `existing` after
`applyDesiredState`; `cur` says that it still has the stored `resourceVersion`.
`body` stands for spec, data and labels, all of which are replaced outright;
annotations are merged key by key, an empty value removing the key. The
last-applied annotation is a configuration, absent (`None`) or unparsable
(`Garbage`). Foreign writes are status updates, annotations, edits of managed
fields, deletions, creations, and removal or corruption of the last-applied
annotation. Two consecutive Gets (in `shouldUpdateResource` and in the loop) are
two steps, as in the code. Server-Side Apply is modelled from how the code uses
it: with forced ownership it creates the object or sets every field it renders.

### PollSchedule

The clock counts ticks; `Second` ticks are a second and `Stored` truncates a
timestamp as its serialisation does. `began` and `MaxPass` bound the length of a
pass. `stamp` is the newest timestamp in the watched column; it may be up to `Skew`
ticks off the operator's clock at the moment the change becomes visible, which
stands for clocks apart, slow commits and lagging replicas. `unread`, `calm`,
`fullAt`, `wasted` and `excused` are history variables: when the oldest change not
read yet appeared, whether it did so between passes with a timestamp of then, when
the last full pass was decided, the time spent in passes that a crash cut short,
and the time by which failed queries put a read off. Data and generations are
abstracted; a CR with a spec that does not parse is in `Reconcile`. `Retry` is the
30 s after a failed connection.

### DbConnections

`open` holds the sessions, named by client and host: client 0 runs the query,
1..N write a child's status back, N+1 runs the detection query. `prepared` says on
which of them the setup statements of the query ran, `lost` which the database has
dropped. `got` is the version of each child that the pass collected, `told` the one
the database was told last, `noted` the one in the `ResourceVersions` that are stored;
`done` are the children this pass has written back, which only the pass knows until
`EndPass` stores its status. `Exec` tells the database and the pass, `ExecUnanswered`
the database alone, and `Crash` (like a status write that is given up) loses `done`.
`secret` and `config` are the Secret and the pass's copy of
it, seen from the database: nothing usable, outdated, or current. `Connect` opens a
session with the primary and, if it answers, one with the replica; `EndPass` is
every return of the pass with its deferred `Close`s. The limit counts sessions of
the primary that are not lost. Which decision `shouldReconcile` takes is free.

### SharedChild

The child carries a label and a controller owner; each CR has it in
`ManagedResources` or not. A pass is `Begin`, `ApplyRow`, `PruneStep`, `Save`, or
`Cleanup`; the controller has one worker, so passes of different CRs follow one
another, while rows, deletions and the garbage collector interleave with them. Any
accepted deletion may leave the child `going` for a while (`Deleted`, `ChildGone`). A CR
outside the child's namespace sets no owner reference (C:543-551).

### The functions

Texts are sequences over small alphabets, in which one letter stands for all that
the code treats alike. The modules state both what the code computes, translated
from its scan, and what it should mean: `PostgresStatements` and `PostgresNames`
are PostgreSQL's lexical rules written from tokens, not from the scan, the folding of
unquoted names to small letters included. Values in
`DbConfig` are represented by where they come from. `MCFunctions` has one step per
function call, so every input is an initial state. What the code builds up character
by character is a recursive function over the positions (`Scan`, `Join`); `Split` is
stated by what it returns, the stretches between the separators. `ParseGVKs` returns
a set, for the operator only watches what it lists.

## 3. Runs

`tlc -workers 2 -config X.cfg M`, with `M` the module named in `PROJECT.json`; each
finishes in about three minutes or less.

| Run | What it checks and shows |
|---|---|
| `reconcile_faults` | `SuccessMeansApplied`, `VersionsReported`, `VersionsManaged`, `FinalizerComplete`, `DroppedShows`, with every fault but a failing child Get, two generations, rows that do not render, stale caches, lost writes, a restart and a child that outlives its deletion. |
| `reconcile_tracking` | `StaleDeleted`, `ChildrenTracked`, `PruneOnlyStale`, `NothingLeftBehind` with two children, broken templates, failing queries, spec edits and foreign deletions: as long as Gets and deletes work and the cache is fresh, pruning is exact and all children are gone or going when the finalizer of a deleted CR goes. One child outlives its deletion, the other does not. |
| `reconcile_liveness` | `NeverParked`; `RowsApplied`, `DeletionCompletes`, `StatusReported` under fairness, with change detection, failing queries, Gets and Execs, a restart, a child that outlives its deletion and a spec that stops the polling. |
| `child_apply` | `WritesAreAtomic` (refinement), `ConflictNeedsRaces`, `RecordLanded`, `Settles` against up to four foreign writes of all kinds, a change of the row and a failing call. |
| `poll_schedule` | `WakePending`, `FullPassInTime`, `ChangeReadInTime`, `ChangeDetectedInTime` with every fault, an event at any moment and a skew of one tick. |
| `db_connections` | `NothingHeldAtRest`, `SelectSeesSetup`, `LedgerKept` (refinement of `StatusLedger`), `EventuallyReported` with three children, one of which is always refused, three sessions, a replica, two faults, a change of a child and one of the Secret. |
| `shared_child` | `LabelledIsListed`, `NoOrphan`, `RowsSurvive`, `NobodysChildGoes` with three CRs: one without finalizer, one in another namespace, all pruning; the child may outlive a deletion. |
| `functions` | `SplitsLikePostgres`, `NamesKeepTheirMeaning`, `KeysLeadBack`, `AdmittedKeepsPolling`, `WarnsIfNothingGained`, `ConfigFromOnePlace`. |
| `prune_live_child`, `finalizer_get_error`, `child_update_storm`, `deletion_rejected` | counterexamples, see section 5. |

Bounds. One or two children are enough to have one operation of several fail; the
properties of the status relate one child to the CR, and the safety properties are
proved for any number. Two generations give a spec
edit under a running pass, and one fault, or two, a failure followed by a failure
on the recovery path. Rows change once or twice: appear, disappear, change value.
Four foreign writes are one more than the three that make an update give up. The
horizon of the clock is more than three poll intervals, long enough for a full
pass, a lost one and two recoveries; the intervals are small but keep the
relations that matter (`changePollInterval` shorter than `pollInterval`, a second of
several ticks); the theorems cover all others, a longer `changePollInterval` among
them. In `db_connections`, the refused child comes first, with two behind
it that wait for a session, and three sessions (query, refused child, one more) are the fewest with which
every child is reported, see section 5. Three CRs let the creator, the last labeller
and the last one to want the child differ, and three edits are enough to have each of
them change its mind once.
Texts of up to 7 characters (4 with blanks) hold two dollar quotes with a tag and a
separator, names of up to 5 a qualified name with a quoted part, GVK patterns of up
to 7 two entries, or one of four parts; durations 0 to 3 give all orders of two
intervals and zero. Of the connection parameters up to two are named and up to two
missing.
A model stops when its horizon is reached, the CR is gone, or the call is made, so
these runs do not check for deadlock; `child_apply` and `db_connections` never stop,
and do check. `shared_child` stops when all CRs and the child are gone.
No run uses symmetry. In the passing runs of `Reconcile` the first child outlives its
deletion (`Lingering`); where it is the only one, a deletion followed at once by
`ChildGone` does what an immediate one would. `reconcile_faults` has no foreign writes
and deletions of the child (`MaxTouches = 0`): the only one of its properties about the
child's version is `VersionsReported`, and spec edits, row changes and deletions
change it already; the other runs have them.

Fairness. `WF(Worker)`: the worker goroutine runs. `WF(CacheSync)`: the watch
delivers. `WF(TimerFires)`: timers fire. Faults are never fair and are bounded, so
the liveness properties speak of what happens after they stop.
`SF(DecideElapsed)`: with change detection, passes that could find
`pollInterval` elapsed do find it again and again; `PollSchedule` proves the
bound (`FullPassesAreTimely`) that justifies it. In `ChildApply`, `WF(Operator)`:
passes keep coming and run to their end. In `DbConnections`, `WF(Pass)`: a pass goes
on and the queue starts the next one; nothing is assumed about which kind of pass it
is, nor that the Secret is ever repaired: `EventuallyReported` has that as its
premise. In `SharedChild`, `SF(Begin \/ Cleanup)` per CR, because the one worker
disables the others' passes again and again and the queue is first in, first out; `WF`
of the steps of a pass, of the garbage collector and of `ChildGone`: what holds a child
that is going lets it go some time. `Reconcile` does not need that.
`reconcile_liveness` has passes start from a cache that has caught up: with
`"staleStart"` a fair behaviour can have EVERY skipped pass start before the cache
has seen the previous status write, seconds after it, and write the older
`managedResources` back each time; then a child is never reported.

## 4. Proofs

`tlapm M.tla` checks each of the eight modules; nothing in them is assumed but the
`ASSUME`s on the constants, which TLC evaluates in the runs. The theorems hold for
all values of the constants: any number of children, values, faults, edits,
interval lengths.

* `Reconcile`. `TypeCorrect` by induction. `FinalizerSafe` (needs
  `"getFault" \notin Faults`) from `CleanupInv`: while the cleanup's copy is the
  stored CR, a managed child that is not going is still in `doomed`; only
  `RemoveFinalizer` drops the finalizer, and it needs that copy to be current.
  It says "gone or going"; that the child is gone is the documented statement, and
  that one fails (section 5). `DropsShow` (same premise) from `DropInv`: while a pass
  prunes without errors, a child it is about to drop is still in `doomed`, or gone
  or going; nothing but a failed delete takes another out, and that is an error.
  `SuccessBacked` from `GenInv` (copies never have a later generation than the
  stored CR, nothing is rendered from a generation to come) and `SoundInv` (all
  three copies of the status are sound, and during a pass so is what is about to
  be published). `VersionsAreReported` and `VersionsAreManaged` from
  `VersionInv`, which says the same of the stored CR, of both copies and of the
  pass.
  The properties themselves speak of the stored CR only and are not inductive:
  the next status comes from a copy.
* `ChildApply`. `ApplyTypeCorrect` with `CopyHeld` (an update always has an object
  to write). `ConflictsAreEarned` from `RaceInv`, which counts foreign writes
  against attempts. `ApplyIsAtomic` is the refinement: `CopyInv` says that a
  current copy is the live object, possibly with the overlay already on it, and
  the lemma `OverlayTwice` that laying the desired state over it again changes
  nothing. `RecordIsHonest` from `RecordInv`.
* `TrackingProofs`, about `Reconcile`. `PruningIsSafe` under `EveryRow` (every row
  renders and applies): by `RowsInv` the keys of a pass are the rows it has
  processed, and what is doomed is none of them; failures of everything else are
  allowed. `ChildrenAreTracked` and `StaleAreDeleted` under `Quiet`: pruning is on,
  and child Gets, deletes and status writes do not fail, passes do not start from a
  stale cache, and the process does not crash. `TInv` follows the list of children
  through a pass: the copy a pass starts from lists what stays (what exists
  and is not going), what is not a key is collected, what stays while pruning is a key
  or doomed, and what the deferred write publishes covers what stays. Each part of `Quiet` is needed: with
  any one of the five faults added to `reconcile_tracking.cfg` TLC finds both
  properties and `NothingLeftBehind` violated, and without `Prune` `ChildrenTracked`
  and `NothingLeftBehind`; failing applies may stay.
* `PollSchedule`. `ScheduleTypeCorrect` with `Past` (no stored timestamp lies in
  the future, so no `RequeueAfter` is negative). `FullPassesAreTimely` from
  `PollInv` (a wake-up is pending and near) and `DueInv` (it comes before the
  next full pass is due). `PollingGoesOn` from `PollInv`. `ChangesAreRead` needs no
  assumption: `NearInv` and `ReadInv` say that a full pass that read nothing is
  followed by one that is no later than the change allows, and `excused` accounts
  for each failed query. `ChangesAreDetected` from `OftenInv` (until something
  fails, no pass asks for more than `changePollInterval`) and `DetectInv` (while a calm
  change is unread, `lastChangeCheckTime` lies before it and the newest timestamp does
  not, so the next check goes on to the query).
* `NothingIsLeftBehind`, also under `Quiet`: `TInv` says that the stored list covers
  what stays, `CleanupInv` that a cleanup with a current copy has had the deletion of
  what that list names accepted, and the finalizer keeps the CR stored until then
  (`FinKeeps`). So every child is gone or going then, no more.
* `NobodyIsParked`, about `Reconcile` with every fault, from `WakeInv`.
  `NeverParked` speaks of the time between passes, and a pass that ends must have
  asked for the next one or be sure of an event. So `WakeInv` follows the copy the
  pass works on: it is no newer than the stored CR and has its spec if it has its
  generation (`OlderCopy`); if it is behind in what decides about a further pass, the
  request is queued or the cache still has to hear of the change, because only the
  start of a pass takes a request from the queue; and a pass asks for nothing only
  if its copy has a spec that is not good.
* The ledger. `WriteBackKeepsLedger` is a refinement: the initial states of
  `DbConnections` map to initial states of `StatusLedger`, and every step to `Change`,
  `Report` or a stutter. Children change while the loop is at another one, and
  `LedgerInv` orders the versions on their way: `noted`, `told`, `got`, `live`, and what
  the pass remembers beyond `noted` is what it has told. An update whose answer is
  lost moves `told` alone.
* `DbConnections`. `TypeCorrect`, `NothingHeld` and `SetupSeen` from `IInv`:
  while the statements of the query run its client holds its session with the
  primary, while an `Exec` runs the loop is at a child, and what holds at rest and
  before the select.
* `SharedChild`. `SharedTypeCorrect` by induction; it assumes of the constants that
  `None` is no CR. `LabelledAreListed` and `NobodyIsOrphaned` from `KnowInv`: a CR
  forgets the child only when the child is gone or going (in its own pass after pruning
  it), or when it ceases to exist itself, so the CR whose label it has and the one that owns it
  know of it, and for a child without owner so does a CR of another namespace. That
  last part is where the finalizer comes in: such a CR ceases to exist in its
  cleanup, which takes the child along.
* `FunctionProofs`. `AdmittedIsPolled` and
  `WarningIsExact` are proved for specs with any integer for a duration (Go's
  durations are integers, and negative ones parse); the run has 0 to 3.
  `ConfigHasOneSource` follows one parameter through `getDBConfig`: with a URI all of
  them come from it, without one each comes from its own entry or default, and a key
  the CR names never falls back to a default.
  `StatementsAreWhole`, `NamesAreThoseOfTheCR` and `NoKeyIsLost` hold for texts of
  any length over their alphabets; what they say of the functions is proved in
  `TextProofs`.
* `TextProofs`. Induction over the positions of a text comes from the least-number
  principle (`Induction`), each statement being the set of the positions where it
  holds, and `Recursion` unfolds a recursive function once.
  * `SplitsRight`: the tokens PostgreSQL finds tile the text, none starting inside
    another (`NoTokenInside`), and `ScanFollowsTokens` is the invariant between the
    two readings: wherever a token starts, the code's scan stands outside quotations,
    has read nothing of the token, and has cut at the semicolons that were tokens.
    For each kind of token `PlainPassed`, `WordPassed`, `QuotePassed` and
    `DollarsPassed` take it to the start of the next one; that a `$` is not stray is
    needed in the second and the last. An unterminated quotation runs to the end of
    the text in both readings.
  * `NamesAreKept`: every part that is accepted closes the quotations it opens
    (`QuotedIsClosed`), so no dot of the joined name is quoted (`WholeJoin`), and it
    falls into the same parts again (`SplitJoin`).
  * `ChildKeys`: what `ParseGVKs` returns has no `/` in its parts (`ParsedGVK`), so
    a key joined from them is split into them (`KeyIsReadBack`).

  The premises (no stray `$`, no quoted dot, no bare quote, no capital outside quotes)
  are those of the properties; section 5 says what happens without them.

Only model-checked: the liveness properties, `RowsApplied`, `DeletionCompletes`,
`StatusReported`, `Settles`, `EventuallyReported`, `RowsSurvive` and
`NobodysChildGoes`. Liveness under fairness rests on `ENABLED`, which the prover does
not support. Every other property of a passing run is a theorem.

## 5. Where the documentation and the code part

Checked by a run whose property is the documented statement:

1. `prune_live_child`: a row whose template fails to render (or whose apply fails)
   is skipped before its key joins `managedResourceKeys`, so pruning deletes its
   live child although the query returned the row (docs/core-concepts.mdx:95).
2. `finalizer_get_error`: the finalizer is removed while a managed child still
   exists (`FinalizerWaits`, README.md:529: "Once all managed resources are deleted").
   Collecting the children for the cleanup takes every error of a Get for absence, so
   the child is not even asked to go. With `Faults = {}` the run still finds a
   violation: `Delete` (C:323) returns when the deletion is accepted, and the
   finalizer goes (C:330) while a child with a finalizer of its own, or one deleted in
   the foreground, is only on its way out. `FinalizerComplete` (without
   failing Gets) and `NothingLeftBehind` (under `Quiet`) are what does hold: each
   child is gone or going.
3. `child_update_storm`: an update records the merged object, other actors'
   annotations included, and later passes compare that record with the rendered
   object: every pass writes again (docs/core-concepts.mdx:266-268). The same
   happens for an annotation the template renders empty or stops rendering.
   `Settles` is what does hold.
4. `deletion_rejected`: a CR whose spec the webhook refuses, stored before the
   webhook was installed, cannot be deleted. Its children go, but the `Update` that
   removes the finalizer is validated like any edit and refused, again and again
   (C:331, databasequeryresource_webhook.go:41, README.md:529).

Also met, each reproduced by a small change of a configuration:

* `reconcile_tracking.cfg` with `Faults = {"deleteFault"}`: a stale child whose
  deletion failed once is dropped from `managedResources` and never deleted
  (C:682, docs/core-concepts.mdx:278: "**Stale resources** (labeled but not in
  results) are **deleted**"). A failed Get, a lost status write, a pass from a stale
  cache and a crash between apply and status write have the same effect
  (`"getFault"`, `"statusLost"`, `"staleStart"`, `"crash"`). What `DroppedShows` does
  say of a failed deletion is that the pass publishes `ProcessingError`; the next pass
  may succeed with the child still there.
* `db_connections.cfg` with `Limit = 2`: a child whose update is always refused
  keeps its session to the end of the loop (C:994), the query has the other one,
  and the children after it are never reported by a full pass. docs/advanced.mdx:113-122
  speaks of a pool of reused connections; the code opens new ones in every pass.
* `FullPassInTime` without the term for `changePollInterval` (README.md:331: "at
  least every `pollInterval`") fails: a skipped pass asks to be woken after
  `changePollInterval` however near the end of `pollInterval` is (C:1257, 447).
* `ChangeDetectedInTime` without `calm`: `lastChangeCheckTime` is the time after the
  detection query (C:1238-1246); a change committed between the two, or with an
  older timestamp, is not detected and waits for `pollInterval`, against
  README.md:405 ("within ~10 seconds"). `ChangeReadInTime` is what does hold.
* `SplitsLikePostgres` without its premise: the splitter takes whatever stands
  between two `$` for the tag of a dollar quote, so that the separator in
  `a$b; c$d` is lost; comments and `E'...'` strings are unknown to it
  (postgres_client.go:136 says only "semicolons not inside quotes").
* `NamesKeepTheirMeaning` without its premise: a dot inside a quoted name makes
  the check refuse it, and a quote inside a quoted part is passed on undoubled
  (C:1345-1360). An unquoted name is quoted as it is (C:1366), and PostgreSQL does not
  fold it to small letters any more: `MyTable`, which PostgreSQL reads as `mytable`,
  becomes `"MyTable"`, another table (docs/troubleshooting.mdx:187: "PostgreSQL folds
  unquoted identifiers to lowercase"). So the property speaks of the meaning of names
  without capitals outside quotes only; with them it only says that what is
  no name is refused.
* `NobodysChildGoes` and the docs: docs/core-concepts.mdx:275-285 speaks of labelled
  children, but pruning and cleanup go by `managedResources` alone, so a CR deletes
  a child that carries another CR's label; the label changes hands in every pass and
  the owner reference stays with the creator. `RowsSurvive` says that the child
  comes back.
* `Admission`: `changePollInterval` is required whenever `changeDetection` is
  present, enabled or not (README.md:438 says "when set"; the CRD's default fills it
  in). A query of separators only is admitted and fails every pass. A non-positive interval
  parks the CR instead of polling continuously (validation.go:59-62), because
  controller-runtime ignores a `RequeueAfter` of zero.
* `DbConfig`: a `readonlyHostKey` the Secret does not have is ignored without an error
  and reads go to the primary (C:842); a URI has no place for a replica. User name and
  password are not escaped when `Connect` builds its own URI (postgres_client.go:79).
* docs/advanced.mdx:303 says manual edits of managed fields are reverted; the
  comparison is with the last-applied record (C:181), so they stay until the row
  or the template changes.
* docs/advanced.mdx:240 says the operator adds a finalizer; it only ever removes
  one, users add it. A last-applied annotation that does not parse makes every
  pass fail for that child.
* A skipped pass that reports a child sets the reason to `ChildResourceChanged` and
  the condition to True, over a `ProcessingError` of the last full pass (C:1018).

## 6. Not modelled, and why

* When a deletion that was accepted comes to its end: `ChildGone` may happen at any
  moment or, in `Reconcile`, never. Wherever a property says that a child is "deleted"
  by the operator it means gone or going; the key of a child that is going is
  dropped from `managedResources` all the same (C:676-682), and its status may still be
  reported in that pass. In `ChildApply` the deletionTimestamp of the child is one more
  write by somebody else (`ForeignStatus`), and `ForeignDelete` is the moment the object
  ceases to exist.
* Template functions (`funcs.go`): one-line wrappers around formatting libraries; rendering
  is a function of row and generation in the models.
* Process start-up (`main.go`), metrics, logging, `redactPassword`, `truncateError`, the
  generated deep copies: framework set-up and wording, no state of their own.
* `QueryWrite` has no caller. The scan of result rows into maps is data.
* A multi-statement `Exec` is one call (postgres_client.go:216); that it takes effect as a
  whole is PostgreSQL's doing.
* Two rows of one CR that render to the same child: row `k` is child `k`.
* Status conditions keep their reason and not their message; `DatabaseConnected` is not kept.
* Database types other than PostgreSQL exist only as a comment (C:1137).

## 7. Plan

Done: all modules of section 2, their runs, and the theorems of section 4. Left for
later, in this order:

1. Two rows of one CR that render to the same child.
2. A property of the condition across passes (C:1018), once the documents say what
   the condition should keep.
