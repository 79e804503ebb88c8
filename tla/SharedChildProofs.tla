-------------------------- MODULE SharedChildProofs --------------------------
(* What holds of a child that several CRs render, for any number of them   *)
(* and whichever of them prune, have the finalizer or can own the child.   *)
EXTENDS SharedChild, TLAPS

\* What the type invariant says of the child alone.
ChildType(c) ==
  /\ c \in [label : CRs \cup {None}, owner : CRs \cup {None}, going : BOOLEAN]
  /\ c.label = None => c = NoChild

\* A deletion leaves nothing to keep, and a child if it leaves one.
LEMMA DeletedChild ==
  ASSUME ChildType(child)
  PROVE  \A c \in Deleted(child) : ChildType(c) /\ (c = NoChild \/ c.going)
<1> SUFFICES ASSUME NEW c \in Deleted(child)
             PROVE  ChildType(c) /\ (c = NoChild \/ c.going)
  OBVIOUS
<1>1. ChildType(NoChild)
  BY DEF ChildType, NoChild
<1>2. CASE child = NoChild \/ child.going
  BY <1>2, <1>1 DEF Deleted
<1>3. CASE child # NoChild /\ ~child.going
  <2> DEFINE d == [child EXCEPT !.going = TRUE]
  <2>1. d.label = child.label /\ d.going
    BY DEF ChildType
  <2>2. d \in [label : CRs \cup {None}, owner : CRs \cup {None}, going : BOOLEAN]
    BY DEF ChildType
  <2>3. ChildType(d)
    BY <1>3, <2>1, <2>2 DEF ChildType
  <2> QED
    BY <1>1, <1>3, <2>1, <2>3 DEF Deleted
<1> QED
  BY <1>2, <1>3

\* Every step leaves a state of the declared types.
LEMMA TypeStep == TypeOK /\ [Next]_vars => TypeOK'
<1> SUFFICES ASSUME TypeOK, [Next]_vars PROVE TypeOK'
  OBVIOUS
<1>a. ChildType(child)
  BY DEF TypeOK, ChildType
<1>b. \A c \in Deleted(child) : ChildType(c)
  BY <1>a, DeletedChild
<1>c. ChildType(child)' <=> ChildType(child')
  BY DEF ChildType, NoChild
<1>d. ChildType(NoChild)
  BY DEF ChildType, NoChild
<1>1. ASSUME NEW r \in CRs, Cleanup(r) PROVE TypeOK'
  <2>1. ChildType(child')
    BY <1>1, <1>a, <1>b DEF Cleanup, CleanedUp
  <2> QED
    BY <1>1, <2>1 DEF Cleanup, pass, TypeOK, ChildType, NoChild
<1>2. ASSUME NEW r \in CRs, Begin(r) PROVE TypeOK'
  BY <1>2, SharedAssumption DEF Begin, objects, TypeOK, NoChild
<1>3. CASE ApplyRow
  <2>1. ChildType(child')
    BY <1>3, <1>a, SharedAssumption DEF ApplyRow, TypeOK, ChildType, NoChild
  <2> QED
    BY <1>3, <2>1, SharedAssumption DEF ApplyRow, TypeOK, ChildType, NoChild
<1>4. CASE PruneStep
  <2>1. ChildType(child')
    BY <1>4, <1>a, <1>b DEF PruneStep
  <2> QED
    BY <1>4, <2>1, SharedAssumption DEF PruneStep, TypeOK, ChildType, NoChild
<1>5. CASE Save
  BY <1>5, SharedAssumption DEF Save, Saved, objects, TypeOK, NoChild
<1>6. ASSUME NEW r \in CRs, RowAppears(r) \/ RowVanishes(r) PROVE TypeOK'
  BY <1>6, SharedAssumption DEF RowAppears, RowVanishes, Edit, pass, TypeOK, NoChild
<1>7. ASSUME NEW r \in CRs, DeleteCR(r) PROVE TypeOK'
  BY <1>7, SharedAssumption DEF DeleteCR, pass, TypeOK, NoChild
<1>8. CASE ChildDeleted \/ GarbageCollect \/ ChildGone
  <2>1. ChildType(child')
    BY <1>8, <1>b, <1>d DEF ChildDeleted, GarbageCollect, ChildGone
  <2>2. edits' \in 0..MaxEdits
    BY <1>8, SharedAssumption DEF ChildDeleted, GarbageCollect, ChildGone, Edit, TypeOK
  <2> QED
    BY <1>8, <2>1, <2>2
    DEF ChildDeleted, GarbageCollect, ChildGone, pass, TypeOK, ChildType, NoChild
<1>9. CASE UNCHANGED vars
  BY <1>9 DEF vars, objects, pass, TypeOK, NoChild
<1> QED
  BY <1>1, <1>2, <1>3, <1>4, <1>5, <1>6, <1>7, <1>8, <1>9 DEF Next

\* The labels, owners and lists of the model are those of CRs, and only
\* existing CRs have lists.
THEOREM SharedTypeCorrect == Spec => []TypeOK
<1>1. Init => TypeOK
  <2> SUFFICES ASSUME Init PROVE TypeOK
    OBVIOUS
  <2>1. child \in [label : CRs \cup {None}, owner : CRs \cup {None}, going : BOOLEAN]
    BY DEF Init, NoChild
  <2>2. edits \in 0..MaxEdits
    BY SharedAssumption DEF Init
  <2> QED
    BY <2>1, <2>2 DEF Init, TypeOK
<1> QED
  BY <1>1, TypeStep, PTL DEF Spec

----------------------------------------------------------------------------
(* Who knows of the child *)

\* Every CR prunes, and owns what it creates or cleans up behind itself.
Tidy == Prune = CRs /\ SameSpace \cup Finalized = CRs

\* A CR forgets a child that is not going only in its own pass, after it has
\* pruned the child, or when it ceases to exist.  A child's owner knows
\* of it therefore, and for one without owner a CR that could not own it and
\* so has the finalizer, because its cleanup comes before its end.
KnowInv ==
  /\ keep => pc \in {"prune", "save"}
  /\ pc # "idle" /\ worker \in Finalized => worker \in alive
  /\ pc = "save" /\ ~keep /\ worker \in Prune \cap managed => ~Kept
  /\ LabelledIsListed
  /\ child.owner \in alive \cap Prune /\ Kept => Knows(child.owner)
  /\ Tidy /\ Kept /\ child.owner = None =>
       \E r \in alive \ SameSpace : Knows(r)

LEMMA KnowStep ==
  ASSUME TypeOK, KnowInv, [Next]_vars
  PROVE  KnowInv'
<1> USE DEF KnowInv, LabelledIsListed, Knows
<1>a. /\ None \notin CRs /\ alive \subseteq CRs /\ managed \subseteq alive
      /\ deleting \subseteq alive
      /\ child.label = None => child = NoChild
      /\ pc = "idle" <=> worker = None
  BY SharedAssumption DEF TypeOK
<1>b. child' \in Deleted(child) \/ child' = NoChild => ~Kept'
  BY DeletedChild DEF Kept, TypeOK, ChildType
<1>c. child' = child => (Kept' <=> Kept)
  BY DEF Kept
<1>1. ASSUME NEW r \in CRs, Cleanup(r) PROVE KnowInv'
  <2>1. UNCHANGED pass /\ worker = None /\ pc = "idle" /\ ~keep
    BY <1>a, <1>1 DEF Cleanup, pass
  <2>2. CASE r \in managed
    BY <1>1, <1>b, <2>1, <2>2 DEF Cleanup, CleanedUp, pass
  <2>3. CASE r \notin managed
    <3>1. child' = child /\ managed' = managed /\ alive' = alive \ {r}
      BY <1>1, <2>3 DEF Cleanup, CleanedUp
    <3> QED
      BY <1>a, <1>c, <2>1, <2>3, <3>1 DEF pass
  <2> QED
    BY <2>2, <2>3
<1>2. ASSUME NEW r \in CRs, Begin(r) PROVE KnowInv'
  BY <1>a, <1>c, <1>2 DEF Begin, objects
<1>3. CASE ApplyRow
  <2>1. /\ pc = "rows" /\ pc' = "prune" /\ keep'
        /\ UNCHANGED <<alive, managed, worker>> /\ worker \in CRs
    BY <1>a, <1>3 DEF ApplyRow, TypeOK
  <2>2. child'.label = worker
    BY <1>3 DEF ApplyRow, TypeOK
  <2>3. CASE child = NoChild
    <3>1. child'.owner = IF worker \in SameSpace THEN worker ELSE None
      BY <1>3, <2>3 DEF ApplyRow, NoChild
    <3>2. Tidy /\ worker \notin SameSpace => worker \in alive
      BY <2>1 DEF Tidy
    <3> QED
      BY <1>a, <2>1, <2>2, <3>1, <3>2
  <2>4. CASE child # NoChild
    <3>1. child'.owner = child.owner /\ child'.going = child.going
      BY <1>3, <2>4 DEF ApplyRow, TypeOK
    <3>2. Kept' => Kept
      BY <2>4, <3>1 DEF Kept
    <3> QED
      BY <1>a, <2>1, <2>2, <3>1, <3>2
  <2> QED
    BY <2>3, <2>4
<1>4. CASE PruneStep
  <2>1. /\ pc = "prune" /\ pc' = "save" /\ UNCHANGED <<alive, managed, worker, keep>>
    BY <1>4 DEF PruneStep
  <2>2. CASE worker \in Prune \cap managed /\ ~keep
    BY <1>4, <1>b, <2>1, <2>2 DEF PruneStep
  <2>3. CASE ~(worker \in Prune \cap managed /\ ~keep)
    BY <1>4, <1>c, <2>1, <2>3 DEF PruneStep
  <2> QED
    BY <2>2, <2>3
<1>5. CASE Save
  <2>1. /\ pc = "save" /\ pc' = "idle" /\ ~keep' /\ UNCHANGED <<alive, child>>
        /\ managed' = Saved(worker)
    BY <1>5 DEF Save, objects
  <2>2. CASE worker \notin alive \/ keep
    BY <1>a, <1>c, <2>1, <2>2 DEF Saved
  <2>3. CASE worker \in alive /\ ~keep
    <3>1. CASE ~Kept
      BY <1>c, <2>1, <3>1
    <3>2. CASE Kept
      <4>1. worker \in Prune => managed' = managed
        BY <2>1, <2>3, <3>2 DEF Saved
      <4>2. \A r \in alive : r # worker => (Knows(r) <=> r \in managed')
        BY <2>1, <2>3 DEF Saved
      <4>3. Tidy => worker \in Prune
        BY <1>a, <2>3 DEF Tidy
      <4> QED
        BY <1>c, <2>1, <2>3, <4>1, <4>2, <4>3
    <3> QED
      BY <3>1, <3>2
  <2> QED
    BY <2>2, <2>3
<1>6. ASSUME NEW r \in CRs, RowAppears(r) \/ RowVanishes(r) PROVE KnowInv'
  BY <1>6, <1>c DEF RowAppears, RowVanishes, pass
<1>7. ASSUME NEW r \in CRs, DeleteCR(r) PROVE KnowInv'
  <2>1. UNCHANGED <<child, worker, pc, keep>>
    BY <1>7 DEF DeleteCR, pass
  <2>2. CASE r \in Finalized
    BY <1>7, <1>c, <2>1, <2>2 DEF DeleteCR
  <2>3. CASE r \notin Finalized
    <3>1. alive' = alive \ {r} /\ managed' = managed \ {r}
      BY <1>7, <2>3 DEF DeleteCR
    <3>2. Tidy => r \in SameSpace
      BY <2>3 DEF Tidy
    <3> QED
      BY <1>c, <2>1, <2>3, <3>1, <3>2
  <2> QED
    BY <2>2, <2>3
<1>8. CASE ChildDeleted \/ GarbageCollect \/ ChildGone
  BY <1>8, <1>b DEF ChildDeleted, GarbageCollect, ChildGone, pass
<1>9. CASE UNCHANGED vars
  BY <1>9, <1>c DEF vars, objects, pass
<1> QED
  BY <1>1, <1>2, <1>3, <1>4, <1>5, <1>6, <1>7, <1>8, <1>9 DEF Next

\* The invariant holds in every state of every execution.
LEMMA KnowInductive == Spec => []KnowInv
<1>1. Init => KnowInv
  BY SharedAssumption DEF Init, KnowInv, LabelledIsListed, NoChild, Kept
<1>2. TypeOK /\ KnowInv /\ [Next]_vars => KnowInv'
  BY KnowStep
<1> QED
  BY <1>1, <1>2, SharedTypeCorrect, PTL DEF Spec

\* A CR that prunes always has in its status, or in the keys of its running
\* pass, what carries its label: pruning by the status alone misses nothing.
THEOREM LabelledAreListed == Spec => []LabelledIsListed
<1>1. KnowInv => LabelledIsListed
  BY DEF KnowInv
<1> QED
  BY <1>1, KnowInductive, PTL

\* Where every CR prunes and either owns what it creates or has the finalizer,
\* a child is never left with nobody to remove it.
THEOREM NobodyIsOrphaned == Spec => []NoOrphan
<1>1. TypeOK /\ KnowInv => NoOrphan
  BY DEF TypeOK, KnowInv, NoOrphan, Tidy, Kept
<1> QED
  BY <1>1, SharedTypeCorrect, KnowInductive, PTL
=============================================================================
