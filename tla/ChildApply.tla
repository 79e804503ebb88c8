---------------------------- MODULE ChildApply -----------------------------
(***************************************************************************)
(* How Reconcile brings ONE child to its desired state, pass after pass:   *)
(* shouldUpdateResource, the second Get, the create through Server-Side    *)
(* Apply or updateWithConflictRetry, against other writers of the object.  *)
(*                                                                         *)
(* Children are read from the API server, not from a cache.  A             *)
(* resourceVersion is compared only with the stored one, so the copy the   *)
(* operator holds carries a Boolean, cur, for "still the stored version".  *)
(***************************************************************************)
EXTENDS ChildObject, Naturals

CONSTANTS
  Wanted,        \* the desired states the row can ask for
  ForeignKinds,  \* which of the foreign writes below happen
  MaxForeign,    \* bound: foreign writes
  MaxChanges,    \* bound: changes of the desired state
  MaxFaults      \* bound: API errors other than a conflict

maxRetries == 3

ASSUME ApplyAssumption ==
  /\ Wanted \subseteq Desired /\ Wanted # {}
  /\ ForeignKinds \subseteq {"status", "annotate", "edit", "delete", "create",
                             "strip", "corrupt"}
  /\ MaxForeign \in Nat /\ MaxChanges \in Nat /\ MaxFaults \in Nat

VARIABLES
  live, author,  \* as in AtomicApply
  desired,       \* what the row renders to now
  pc,            \* where the processing of the row is
  want,          \* obj: what the row rendered to when it was read
  copy,          \* existing: the object as read, overlaid at once
  cur,           \* copy holds the stored resourceVersion
  attempt,       \* loop variable of updateWithConflictRetry
  raced,         \* history: foreign writes since the row's processing began
  why,           \* history: why the row failed
  used           \* how much of each bound is spent

opVars == <<pc, want, copy, cur, attempt, raced, why>>
vars   == <<live, author, desired, opVars, used>>

Resting == {"idle", "applied", "uptodate", "failed"}
PCs == Resting \cup {"check", "get", "create", "update", "reread"}
Causes == {"none", "conflict", "gone", "unreadable", "error"}

TypeOK ==
  /\ live \in Object \cup {None}
  /\ author \in {"operator", "foreign"}
  /\ desired \in Desired /\ want \in Desired
  /\ pc \in PCs
  /\ copy \in Object \cup {None}
  /\ cur \in BOOLEAN
  /\ attempt \in 0 .. maxRetries - 1
  /\ raced \in Nat
  /\ why \in Causes
  /\ used \in [foreign : Nat, changes : Nat, faults : Nat]

Init ==
  /\ live = None /\ author = "foreign"
  /\ desired \in Wanted /\ want = desired
  /\ pc = "idle" /\ copy = None /\ cur = FALSE
  /\ attempt = 0 /\ raced = 0 /\ why = "none"
  /\ used = [foreign |-> 0, changes |-> 0, faults |-> 0]

----------------------------------------------------------------------------
(* The operator *)

\* A pass reaches the row and renders it.
BeginRow ==
  /\ pc \in Resting
  /\ pc' = "check"
  /\ want' = desired
  /\ raced' = 0 /\ attempt' = 0 /\ why' = "none" /\ copy' = None /\ cur' = FALSE
  /\ UNCHANGED <<live, author, desired, used>>

FailRow(cause) ==
  /\ pc' = "failed"
  /\ why' = cause
  /\ UNCHANGED <<live, author, desired, want, copy, cur, attempt, raced>>

\* shouldUpdateResource says no.
CheckUpToDate ==
  /\ pc = "check" /\ live # None /\ UpToDate(live, want)
  /\ pc' = "uptodate"
  /\ UNCHANGED <<live, author, desired, want, copy, cur, attempt, raced, why, used>>

\* It says yes: no object, no record of an earlier apply, or a different one.
CheckNeeded ==
  /\ pc = "check"
  /\ live # None => ~Unreadable(live) /\ ~UpToDate(live, want)
  /\ pc' = "get"
  /\ UNCHANGED <<live, author, desired, want, copy, cur, attempt, raced, why, used>>

\* The last-applied annotation does not parse.
CheckUnreadable ==
  /\ pc = "check" /\ live # None /\ Unreadable(live)
  /\ FailRow("unreadable")
  /\ UNCHANGED used

\* The second Get; an object found is overlaid in memory at once.
GetExisting ==
  /\ pc = "get"
  /\ pc' = IF live = None THEN "create" ELSE "update"
  /\ copy' = IF live = None THEN None ELSE applyDesiredState(live, want)
  /\ cur' = TRUE
  /\ UNCHANGED <<live, author, desired, want, attempt, raced, why, used>>

Create ==
  /\ pc = "create"
  /\ live' = Patched(live, want)
  /\ author' = "operator"
  /\ pc' = "applied"
  /\ cur' = FALSE
  /\ UNCHANGED <<desired, want, copy, attempt, raced, why, used>>

\* Bug: the update carries no resourceVersion.
BugUpdate ==
  /\ pc = "update" /\ live # None
  /\ live' = Updated(copy, want)
  /\ author' = "operator"
  /\ pc' = "applied"
  /\ cur' = FALSE
  /\ UNCHANGED <<desired, want, copy, attempt, raced, why, used>>

\* r.Update of the overlaid copy with its new last-applied record.
Update ==
  /\ pc = "update" /\ live # None /\ cur
  /\ live' = Updated(copy, want)
  /\ author' = "operator"
  /\ pc' = "applied"
  /\ cur' = FALSE
  /\ UNCHANGED <<desired, want, copy, attempt, raced, why, used>>

\* Bug: the loop reads again after its last attempt too.
BugConflict ==
  /\ pc = "update" /\ live # None /\ ~cur
  /\ pc' = "reread"
  /\ attempt' = attempt + 1
  /\ UNCHANGED <<live, author, desired, want, copy, cur, raced, why, used>>

\* A conflict with attempts left: read again.
UpdateConflict ==
  /\ pc = "update" /\ live # None /\ ~cur /\ attempt < maxRetries - 1
  /\ pc' = "reread"
  /\ attempt' = attempt + 1
  /\ UNCHANGED <<live, author, desired, want, copy, cur, raced, why, used>>

\* Bug: the second conflict already ends the loop.
BugConflictLast ==
  /\ pc = "update" /\ live # None /\ ~cur /\ attempt >= maxRetries - 2
  /\ FailRow("conflict")
  /\ UNCHANGED used

\* A conflict in the last attempt.
UpdateConflictLast ==
  /\ pc = "update" /\ live # None /\ ~cur /\ attempt = maxRetries - 1
  /\ FailRow("conflict")
  /\ UNCHANGED used

\* The object was deleted: not a conflict, returned at once.
UpdateGone ==
  /\ pc \in {"update", "reread"} /\ live = None
  /\ FailRow("gone")
  /\ UNCHANGED used

Reread ==
  /\ pc = "reread" /\ live # None
  /\ copy' = live
  /\ cur' = TRUE
  /\ pc' = "update"
  /\ UNCHANGED <<live, author, desired, want, attempt, raced, why, used>>

\* Any call fails for another reason: the row is skipped.
ApiError ==
  /\ pc \notin Resting
  /\ used.faults < MaxFaults
  /\ used' = [used EXCEPT !.faults = @ + 1]
  /\ FailRow("error")

----------------------------------------------------------------------------
(* The other writers *)

Foreign(kind, o) ==
  /\ kind \in ForeignKinds
  /\ used.foreign < MaxForeign
  /\ used' = [used EXCEPT !.foreign = @ + 1]
  /\ live' = o
  /\ author' = "foreign"
  /\ cur' = FALSE
  /\ raced' = raced + 1
  /\ UNCHANGED <<desired, pc, want, copy, attempt, why>>

\* The status changes: a new resourceVersion, nothing the operator compares.
ForeignStatus == live # None /\ Foreign("status", live)

ForeignAnnotate ==
  live # None /\ \E a \in AnnKeys, v \in AnnVals :
    Foreign("annotate", [live EXCEPT !.anns[a] = v])

ForeignEdit ==
  live # None /\ \E b \in Bodies : Foreign("edit", [live EXCEPT !.body = b])

ForeignDelete == live # None /\ Foreign("delete", None)

ForeignCreate ==
  live = None /\ \E b \in Bodies :
    Foreign("create", [body |-> b, anns |-> [a \in AnnKeys |-> None], la |-> None])

ForeignStrip == live # None /\ Foreign("strip", [live EXCEPT !.la = None])

ForeignCorrupt == live # None /\ Foreign("corrupt", [live EXCEPT !.la = Garbage])

\* The row changes, or the template does.
DesiredChanges ==
  /\ used.changes < MaxChanges
  /\ used' = [used EXCEPT !.changes = @ + 1]
  /\ \E d \in Wanted : d # desired /\ desired' = d
  /\ UNCHANGED <<live, author, opVars>>

Operator ==
  \/ BeginRow \/ CheckUpToDate \/ CheckNeeded \/ CheckUnreadable \/ GetExisting
  \/ Create \/ Update \/ UpdateConflict \/ UpdateConflictLast \/ UpdateGone
  \/ Reread

Others ==
  \/ ForeignStatus \/ ForeignAnnotate \/ ForeignEdit \/ ForeignDelete
  \/ ForeignCreate \/ ForeignStrip \/ ForeignCorrupt \/ DesiredChanges

Next == Operator \/ ApiError \/ Others

Spec == Init /\ [][Next]_vars

\* Passes keep coming (the poll interval) and run to their end.
FairSpec == Spec /\ WF_vars(Operator)

----------------------------------------------------------------------------
(* Properties.  C is internal/controller/databasequeryresource_controller.go. *)

Atomic == INSTANCE AtomicApply WITH
  live <- live, author <- author, want <- want

\* Whatever the interleaving, a write of the operator is an overlay on the
\* object as it is at that moment: no annotation another actor wrote between
\* the Get and the Update is ever lost (updateWithConflictRetry).
WritesAreAtomic == Atomic!Spec

\* Losing a race costs a retry, not the row: the row fails with a conflict
\* only if other actors wrote the object at least maxRetries times while it
\* was being processed (C:236-281).
ConflictNeedsRaces == pc = "failed" /\ why = "conflict" => raced >= maxRetries

\* The last-applied record never runs ahead of the object: right after a
\* write of the operator, whatever it raced with, all that the record says
\* is on the object (C:98-130, C:243-244).
RecordLanded ==
  author = "operator" =>
    /\ live.body = live.la.body
    /\ \A a \in AnnKeys :
         live.la.anns[a] \in AnnVals => live.anns[a] = live.la.anns[a]

\* The next update would record what the row renders to: the overlay leaves
\* no annotation on the object beside the rendered ones.
RecordsDesired(o, d) == MergeAnnotations(o.anns, d.anns) = d.anns

\* Once the row, the faults and the other writers are quiet, passes stop
\* writing and the record equals the desired state for good, after any edits,
\* deletions, re-creations and strips - save on an object whose record is
\* damaged (C:170-176) or that carries an annotation the template does not
\* render, or renders empty (C:250-254).
Settles ==
  <>[](live # None /\ (RecordsDesired(live, desired) /\ ~Unreadable(live)
                         => UpToDate(live, desired)))

\* What the documentation says: passes stop writing, whatever other actors
\* put on the object ("only applies if there are differences",
\* docs/core-concepts.mdx:266-268).
WritesOnlyDifferences == <>[](live # None /\ UpToDate(live, desired))
=============================================================================
