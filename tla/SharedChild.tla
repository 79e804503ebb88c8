----------------------------- MODULE SharedChild -----------------------------
(***************************************************************************)
(* One child object that several CRs render: nothing stops their templates *)
(* from producing the same key.  Each CR keeps the child in its own        *)
(* ManagedResources, writes its own label over it, and deletes it when its *)
(* own row is gone; the owner reference stays that of the CR that created  *)
(* the child.  The controller has one worker, so passes of different CRs   *)
(* do not interleave with each other, but rows, deletions of CRs, the      *)
(* garbage collector and the end of a child that is terminating come in    *)
(* between the steps of a pass.                                            *)
(*                                                                         *)
(* Module Reconcile has the pass of one CR in detail, with its errors and  *)
(* crashes; here a pass succeeds, and every CR keeps being polled.         *)
(***************************************************************************)
EXTENDS Naturals, FiniteSets

CONSTANTS
  CRs,        \* the CRs whose templates render the child
  None,       \* no CR, no child
  Prune,      \* the CRs with spec.prune
  Finalized,  \* the CRs with the operator's finalizer
  SameSpace,  \* the CRs in the child's namespace, which own what they create
  MaxEdits    \* bound: rows that come or go, deletions of the child by users

ASSUME SharedAssumption ==
  /\ None \notin CRs
  /\ Prune \subseteq CRs /\ Finalized \subseteq CRs /\ SameSpace \subseteq CRs
  /\ MaxEdits \in Nat

VARIABLES
  wants,     \* the CRs one of whose rows renders the child
  alive,     \* the CRs that exist
  deleting,  \* those of them with a deletion timestamp
  child,     \* the child: its managed-by label, its controller owner, and
             \* going: it has a deletion timestamp
  managed,   \* the CRs with the child in Status.ManagedResources
  worker,    \* the CR whose pass is running, or None
  pc,        \* where that pass is
  keep,      \* its managedResourceKeys holds the child
  edits      \* how much of the bound is spent

objects == <<wants, alive, deleting, child>>
pass    == <<worker, pc, keep>>
vars    == <<objects, managed, pass, edits>>

NoChild == [label |-> None, owner |-> None, going |-> FALSE]

\* The child exists and nobody has asked for its deletion.
Kept == child # NoChild /\ ~child.going

\* What a deletion leaves of the child: nothing, or, where finalizers of its own
\* or its dependents hold it, a child that is going.
Deleted(c) ==
  IF c = NoChild \/ c.going THEN {c} ELSE {NoChild, [c EXCEPT !.going = TRUE]}

TypeOK ==
  /\ wants \subseteq CRs /\ alive \subseteq CRs /\ deleting \subseteq alive
  /\ child \in [label : CRs \cup {None}, owner : CRs \cup {None}, going : BOOLEAN]
  /\ child.label = None => child = NoChild
  /\ managed \subseteq alive
  /\ worker \in CRs \cup {None}
  /\ pc \in {"idle", "rows", "prune", "save"} /\ (pc = "idle" <=> worker = None)
  /\ keep \in BOOLEAN
  /\ edits \in 0..MaxEdits

Init ==
  /\ wants \in SUBSET CRs
  /\ alive = CRs /\ deleting = {}
  /\ child = NoChild /\ managed = {}
  /\ worker = None /\ pc = "idle" /\ keep = FALSE
  /\ edits = 0

----------------------------------------------------------------------------
(* The passes *)

\* Bug: the cleanup spares a child that has another CR's label.
BugCleanedUp(r) ==
  IF r \in managed /\ child.label = r THEN Deleted(child) ELSE {child}

\* The finalizer's cleanup deletes what the status lists, whoever's label
\* and owner reference is on it.
CleanedUp(r) == IF r \in managed THEN Deleted(child) ELSE {child}

\* The pass over a CR with a deletion timestamp: the deletion of the child is
\* accepted, then the finalizer goes and with it the CR.
Cleanup(r) ==
  /\ worker = None /\ r \in deleting
  /\ child' \in CleanedUp(r)
  /\ alive' = alive \ {r} /\ deleting' = deleting \ {r}
  /\ managed' = managed \ {r}
  /\ UNCHANGED <<wants, pass, edits>>

\* Any other pass; the query sees the rows as they are now.
Begin(r) ==
  /\ worker = None /\ r \in alive \ deleting
  /\ worker' = r
  /\ IF r \in wants
       THEN pc' = "rows"
       ELSE pc' = "prune"
  /\ keep' = FALSE
  /\ UNCHANGED <<objects, managed, edits>>

\* A child that does not exist is created with the CR's label and, in its
\* namespace, a controller reference; one that does exist gets the label, if
\* the recorded configuration has another one, and keeps its owner, also when
\* it is going.
ApplyRow ==
  /\ pc = "rows"
  /\ child' = IF child = NoChild
                THEN [NoChild EXCEPT
                        !.label = worker,
                        !.owner = IF worker \in SameSpace THEN worker ELSE None]
                ELSE [child EXCEPT !.label = worker]
  /\ keep' = TRUE
  /\ pc' = "prune"
  /\ UNCHANGED <<wants, alive, deleting, managed, worker, edits>>

\* Bug: a child that another CR owns is spared.
BugPruneStep ==
  /\ pc = "prune"
  /\ child' \in IF /\ worker \in Prune \cap managed /\ ~keep
                   /\ child.owner \in {None, worker}
                  THEN Deleted(child) ELSE {child}
  /\ pc' = "save"
  /\ UNCHANGED <<wants, alive, deleting, managed, worker, keep, edits>>

\* pruneStaleResources goes by the status alone, too.
PruneStep ==
  /\ pc = "prune"
  /\ child' \in IF worker \in Prune \cap managed /\ ~keep
                  THEN Deleted(child) ELSE {child}
  /\ pc' = "save"
  /\ UNCHANGED <<wants, alive, deleting, managed, worker, keep, edits>>

\* Bug: the status of a CR that is gone is written all the same.
BugSavedGone(r) == IF keep THEN managed \cup {r} ELSE managed \ {r}

\* Bug: the keys of earlier passes stay in the status.
BugSaved(r) == IF keep /\ r \in alive THEN managed \cup {r} ELSE managed

\* Status.ManagedResources becomes the keys of this pass; the deferred write
\* does not find a CR that is gone meanwhile.
Saved(r) ==
  IF r \notin alive THEN managed
  ELSE IF keep THEN managed \cup {r} ELSE managed \ {r}

Save ==
  /\ pc = "save"
  /\ managed' = Saved(worker)
  /\ worker' = None /\ pc' = "idle" /\ keep' = FALSE
  /\ UNCHANGED <<objects, edits>>

----------------------------------------------------------------------------
(* The surroundings *)

Edit == edits < MaxEdits /\ edits' = edits + 1

RowAppears(r) ==
  /\ r \notin wants /\ Edit
  /\ wants' = wants \cup {r}
  /\ UNCHANGED <<alive, deleting, child, managed, pass>>

RowVanishes(r) ==
  /\ r \in wants /\ Edit
  /\ wants' = wants \ {r}
  /\ UNCHANGED <<alive, deleting, child, managed, pass>>

ChildDeleted ==
  /\ Kept /\ Edit
  /\ child' \in Deleted(child)
  /\ UNCHANGED <<wants, alive, deleting, managed, pass>>

\* kubectl delete; without a finalizer the CR is gone at once.
DeleteCR(r) ==
  /\ r \in alive \ deleting
  /\ IF r \in Finalized
       THEN deleting' = deleting \cup {r} /\ UNCHANGED <<alive, managed>>
       ELSE /\ alive' = alive \ {r} /\ managed' = managed \ {r}
            /\ UNCHANGED deleting
  /\ UNCHANGED <<wants, child, pass, edits>>

\* Kubernetes deletes a child whose owner does not exist.
GarbageCollect ==
  /\ child.owner \notin alive \cup {None} /\ Kept
  /\ child' \in Deleted(child)
  /\ UNCHANGED <<wants, alive, deleting, managed, pass, edits>>

\* What held a child that was going is done.
ChildGone ==
  /\ child.going
  /\ child' = NoChild
  /\ UNCHANGED <<wants, alive, deleting, managed, pass, edits>>

Next ==
  \/ \E r \in CRs : Cleanup(r) \/ Begin(r)
  \/ ApplyRow \/ PruneStep \/ Save
  \/ \E r \in CRs : RowAppears(r) \/ RowVanishes(r) \/ DeleteCR(r)
  \/ ChildDeleted \/ GarbageCollect \/ ChildGone

Spec == Init /\ [][Next]_vars

\* Every CR is polled again and again and the work queue is first in, first
\* out; a pass ends; the garbage collector does its work, and what holds a child
\* that is going lets it go some time.
FairSpec ==
  /\ Spec
  /\ \A r \in CRs : SF_vars(Begin(r) \/ Cleanup(r))
  /\ WF_vars(ApplyRow \/ PruneStep \/ Save)
  /\ WF_vars(GarbageCollect)
  /\ WF_vars(ChildGone)

----------------------------------------------------------------------------
(* Properties.  C is internal/controller/databasequeryresource_controller.go. *)

\* r has the child in its status, or will when its pass ends.
Knows(r) == r \in managed \/ (worker = r /\ keep)

\* A CR that prunes has in its status whatever carries its label and is not
\* going already, although pruning goes by the status alone (C:871-906), others
\* relabel, prune and clean up the child between its passes, and rows come and
\* go during them.
LabelledIsListed ==
  child.label \in alive \cap Prune /\ Kept => Knows(child.label)

\* Where every CR prunes, and is owner of what it creates or cleans up behind
\* itself, no child escapes: some existing CR has it in its status, or its
\* owner is gone and it is the garbage collector's, or it is going.  The labels
\* may be of CRs that no longer exist, and CRs may go in the middle of their
\* passes.
NoOrphan ==
  Prune = CRs /\ SameSpace \cup Finalized = CRs /\ Kept =>
    child.owner \notin alive \cup {None} \/ \E r \in alive : Knows(r)

Wanting == wants \cap (alive \ deleting)

\* Rows and CRs change finitely often here, so both are about what is left
\* in the end.

\* While some CR has a row for the child, the child is there in the end and
\* stays: the others prune it, clean it up and have it collected as their own,
\* but only so often, and a child that was found going and updated all the same
\* is made anew when it is gone.
RowsSurvive == <>[](Wanting # {} => Kept)

\* A child that no row asks for any more does not stay, though the CR that
\* created it, the one whose label it has and the last one that wanted it
\* may be three, and deleted ones: every CR prunes, and is either owner of
\* what it creates or cleans up behind itself.
NobodysChildGoes ==
  Prune = CRs /\ SameSpace \cup Finalized = CRs =>
    <>[](Wanting = {} => child = NoChild)
=============================================================================
