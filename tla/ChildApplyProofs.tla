-------------------------- MODULE ChildApplyProofs -------------------------
(***************************************************************************)
(* Proofs about ChildApply, for every set of bodies, annotations, desired  *)
(* states and foreign writers, and without the bounds TLC needs mattering. *)
(***************************************************************************)
EXTENDS ChildApply, TLAPS

\* Overlaying the same desired state twice is overlaying it once: Reconcile
\* applies it before it calls updateWithConflictRetry, which applies it again.
LEMMA OverlayTwice ==
  ASSUME NEW o \in Object, NEW d \in Desired
  PROVE  applyDesiredState(applyDesiredState(o, d), d) = applyDesiredState(o, d)
<1> DEFINE once == MergeAnnotations(o.anns, d.anns)
<1>1. MergeAnnotations(once, d.anns) = once
  BY DEF MergeAnnotations
<1> QED
  BY <1>1 DEF applyDesiredState, Object

\* The overlay of an object is an object.
LEMMA OverlayType ==
  ASSUME NEW o \in Object, NEW d \in Desired
  PROVE  applyDesiredState(o, d) \in Object
<1>1. MergeAnnotations(o.anns, d.anns) \in Annotations
  BY DEF MergeAnnotations, Annotations, Object, Desired, Config
<1> QED
  BY <1>1 DEF applyDesiredState, Object, Desired, Config

\* So is what an update writes.
LEMMA UpdatedType ==
  ASSUME NEW o \in Object, NEW d \in Desired
  PROVE  Updated(o, d) \in Object
<1>1. applyDesiredState(o, d) \in Object
  BY OverlayType
<1> QED
  BY <1>1 DEF Updated, setLastAppliedConfig, ConfigOf, Object, Config

\* And what a Server-Side Apply writes, over an object or over nothing.
LEMMA PatchedType ==
  ASSUME NEW o \in Object \cup {None}, NEW d \in Desired
  PROVE  Patched(o, d) \in Object
<1>1. CASE o = None
  BY <1>1 DEF Patched, Object, Desired, Config
<1>2. CASE o # None
  <2>1. [a \in AnnKeys |-> IF d.anns[a] = None THEN o.anns[a] ELSE d.anns[a]]
          \in Annotations
    BY <1>2 DEF Annotations, Object, Desired, Config
  <2> QED
    BY <1>2, <2>1 DEF Patched, Object, Desired, Config
<1> QED
  BY <1>1, <1>2

\* Foreign writers store objects too.
LEMMA ForeignType ==
  ASSUME TypeOK, Others
  PROVE  live' \in Object \cup {None}
<1> USE DEF TypeOK
<1>1. CASE ForeignStatus
  BY <1>1 DEF ForeignStatus, Foreign
<1>2. CASE ForeignAnnotate
  <2>1. PICK a \in AnnKeys, v \in AnnVals : live' = [live EXCEPT !.anns[a] = v]
    BY <1>2 DEF ForeignAnnotate, Foreign
  <2>2. live \in Object
    BY <1>2 DEF ForeignAnnotate
  <2>3. [live.anns EXCEPT ![a] = v] \in Annotations
    BY <2>2 DEF Annotations, Object
  <2> QED
    BY <2>1, <2>2, <2>3 DEF Object
<1>3. CASE ForeignEdit
  <2>1. PICK b \in Bodies : live' = [live EXCEPT !.body = b]
    BY <1>3 DEF ForeignEdit, Foreign
  <2>2. live \in Object
    BY <1>3 DEF ForeignEdit
  <2> QED
    BY <2>1, <2>2 DEF Object
<1>4. CASE ForeignDelete
  BY <1>4 DEF ForeignDelete, Foreign
<1>5. CASE ForeignCreate
  <2>1. PICK b \in Bodies :
          live' = [body |-> b, anns |-> [a \in AnnKeys |-> None], la |-> None]
    BY <1>5 DEF ForeignCreate, Foreign
  <2> QED
    BY <2>1 DEF Object, Annotations
<1>6. CASE ForeignStrip
  BY <1>6 DEF ForeignStrip, Foreign, Object
<1>7. CASE ForeignCorrupt
  BY <1>7 DEF ForeignCorrupt, Foreign, Object
<1>8. CASE DesiredChanges
  BY <1>8 DEF DesiredChanges
<1> QED
  BY <1>1, <1>2, <1>3, <1>4, <1>5, <1>6, <1>7, <1>8 DEF Others

\* What every foreign write leaves alone, and what it does to the operator's
\* view: the copy it holds is out of date, and one more race is counted.
LEMMA ForeignEffect ==
  ASSUME Others
  PROVE  /\ UNCHANGED <<pc, want, copy, attempt, why>>
         /\ \/ author' = "foreign" /\ cur' = FALSE /\ raced' = raced + 1
            \/ UNCHANGED <<live, author, cur, raced>>
<1>1. ASSUME NEW kind, NEW o, Foreign(kind, o)
      PROVE  /\ UNCHANGED <<pc, want, copy, attempt, why>>
             /\ author' = "foreign" /\ cur' = FALSE /\ raced' = raced + 1
  BY <1>1 DEF Foreign
<1>2. CASE DesiredChanges
  BY <1>2 DEF DesiredChanges, opVars
<1> QED
  BY <1>1, <1>2 DEF Others, ForeignStatus, ForeignAnnotate, ForeignEdit,
     ForeignDelete, ForeignCreate, ForeignStrip, ForeignCorrupt

\* The bounds' counters stay counters.
LEMMA CounterType ==
  ASSUME TypeOK, Others \/ ApiError
  PROVE  used' \in [foreign : Nat, changes : Nat, faults : Nat]
<1>1. ASSUME NEW kind, NEW o, Foreign(kind, o)
      PROVE  used' \in [foreign : Nat, changes : Nat, faults : Nat]
  BY <1>1 DEF Foreign, TypeOK
<1>2. CASE DesiredChanges
  BY <1>2 DEF DesiredChanges, TypeOK
<1>3. CASE ApiError
  BY <1>3 DEF ApiError, TypeOK
<1> QED
  BY <1>1, <1>2, <1>3 DEF Others, ForeignStatus, ForeignAnnotate, ForeignEdit,
     ForeignDelete, ForeignCreate, ForeignStrip, ForeignCorrupt

----------------------------------------------------------------------------
(* Type correctness *)

\* The wanted states are desired states.
LEMMA WantedType == Wanted \subseteq Desired
  BY ApplyAssumption

\* The update path always holds a copy: TypeOK alone is not inductive.
CopyHeld == pc = "update" => copy # None

\* Every step preserves the types.
LEMMA TypeStep == TypeOK /\ CopyHeld /\ [Next]_vars => TypeOK'
<1> SUFFICES ASSUME TypeOK, CopyHeld, [Next]_vars PROVE TypeOK'
  OBVIOUS
<1> USE DEF Resting, PCs, Causes, maxRetries
<1>1. CASE BeginRow
  <2>1. cur' \in BOOLEAN
    BY <1>1, Zenon DEF BeginRow
  <2>2. attempt' \in 0 .. maxRetries - 1 /\ raced' \in Nat
    BY <1>1 DEF BeginRow
  <2> QED
    BY <1>1, <2>1, <2>2 DEF TypeOK, BeginRow
<1>2. CASE CheckUpToDate
  BY <1>2 DEF TypeOK, CheckUpToDate
<1>3. CASE CheckNeeded
  BY <1>3 DEF TypeOK, CheckNeeded
<1>4. CASE CheckUnreadable
  BY <1>4 DEF TypeOK, CheckUnreadable, FailRow
<1>5. CASE GetExisting
  <2>1. live # None => applyDesiredState(live, want) \in Object
    BY OverlayType DEF TypeOK
  <2> QED
    BY <1>5, <2>1 DEF TypeOK, GetExisting
<1>6. CASE Create
  <2>1. Patched(live, want) \in Object
    BY PatchedType DEF TypeOK
  <2> QED
    BY <1>6, <2>1 DEF TypeOK, Create
<1>7. CASE Update
  <2>1. copy \in Object
    BY <1>7 DEF TypeOK, CopyHeld, Update
  <2> QED
    BY <1>7, <2>1, UpdatedType DEF TypeOK, Update
<1>8. CASE UpdateConflict
  BY <1>8 DEF TypeOK, UpdateConflict
<1>9. CASE UpdateConflictLast
  BY <1>9 DEF TypeOK, UpdateConflictLast, FailRow
<1>10. CASE UpdateGone
  BY <1>10 DEF TypeOK, UpdateGone, FailRow
<1>11. CASE Reread
  BY <1>11 DEF TypeOK, Reread
<1>12. CASE ApiError
  BY <1>12, CounterType DEF TypeOK, ApiError, FailRow
<1>13. CASE Others
  <2>1. desired' \in Desired
    BY <1>13, WantedType DEF TypeOK, Others, DesiredChanges, Foreign, ForeignStatus,
       ForeignAnnotate, ForeignEdit, ForeignDelete, ForeignCreate, ForeignStrip,
       ForeignCorrupt
  <2>2. CASE author' = "foreign" /\ cur' = FALSE /\ raced' = raced + 1
    <3>1. cur' \in BOOLEAN
      BY <2>2, Zenon
    <3> QED
      BY <1>13, <2>1, <2>2, <3>1, ForeignType, ForeignEffect, CounterType DEF TypeOK
  <2>3. CASE UNCHANGED <<live, author, cur, raced>>
    BY <1>13, <2>1, <2>3, ForeignEffect, CounterType DEF TypeOK
  <2> QED
    BY <1>13, <2>2, <2>3, ForeignEffect
<1>14. CASE UNCHANGED vars
  BY <1>14 DEF TypeOK, vars, opVars
<1> QED
  BY <1>1, <1>2, <1>3, <1>4, <1>5, <1>6, <1>7, <1>8, <1>9, <1>10, <1>11,
     <1>12, <1>13, <1>14 DEF Next, Operator

\* A copy once held stays held while the row is being updated.
LEMMA CopyHeldStep == TypeOK /\ CopyHeld /\ [Next]_vars => CopyHeld'
<1> SUFFICES ASSUME TypeOK, CopyHeld, [Next]_vars PROVE CopyHeld'
  OBVIOUS
<1>1. CASE GetExisting
  <2>1. live # None => applyDesiredState(live, want) \in Object
    BY OverlayType DEF TypeOK
  <2> QED
    BY <1>1, <2>1, SentinelsDistinct DEF GetExisting, CopyHeld
<1>2. CASE Reread
  BY <1>2 DEF Reread, CopyHeld
<1>3. CASE Operator /\ ~GetExisting /\ ~Reread
  BY <1>3 DEF CopyHeld, Operator, BeginRow, CheckUpToDate, CheckNeeded,
     CheckUnreadable, FailRow, Create, Update, UpdateConflict, UpdateConflictLast,
     UpdateGone
<1>4. CASE ApiError
  BY <1>4 DEF ApiError, FailRow, CopyHeld
<1>5. CASE Others
  BY <1>5, ForeignEffect DEF CopyHeld
<1>6. CASE UNCHANGED vars
  BY <1>6 DEF vars, opVars, CopyHeld
<1> QED
  BY <1>1, <1>2, <1>3, <1>4, <1>5, <1>6 DEF Next

\* The inductive form of type correctness.
LEMMA ApplyTyped == Spec => [](TypeOK /\ CopyHeld)
<1>1. Init => TypeOK /\ CopyHeld
  <2> SUFFICES ASSUME Init PROVE TypeOK /\ CopyHeld
    OBVIOUS
  <2>1. cur \in BOOLEAN
    BY Zenon DEF Init
  <2> QED
    BY <2>1, WantedType DEF Init, TypeOK, CopyHeld, PCs, Resting, Causes, maxRetries
<1>2. TypeOK /\ CopyHeld /\ [Next]_vars => (TypeOK /\ CopyHeld)'
  BY TypeStep, CopyHeldStep
<1> QED
  BY <1>1, <1>2, PTL DEF Spec

\* Processing a row keeps every variable in its type; in particular the loop
\* of updateWithConflictRetry never starts a fourth attempt.
THEOREM ApplyTypeCorrect == Spec => []TypeOK
  BY ApplyTyped, PTL

----------------------------------------------------------------------------
(* A conflict error needs three races *)

\* Each attempt so far was lost to a foreign write of its own, and the copy
\* in hand is out of date only through one more.
RaceInv ==
  /\ attempt <= raced
  /\ pc = "update" /\ ~cur => attempt < raced
  /\ ConflictNeedsRaces

\* Every step preserves the account of the races.
LEMMA RaceStep == TypeOK /\ RaceInv /\ [Next]_vars => RaceInv'
<1> SUFFICES ASSUME TypeOK, RaceInv, [Next]_vars PROVE RaceInv'
  OBVIOUS
<1>0. attempt \in Nat /\ raced \in Nat
  BY DEF TypeOK, maxRetries
<1> USE <1>0 DEF RaceInv, ConflictNeedsRaces, maxRetries
<1>1. CASE BeginRow
  BY <1>1 DEF BeginRow
<1>2. CASE CheckUpToDate \/ CheckNeeded \/ CheckUnreadable \/ Create \/ Update
  BY <1>2 DEF CheckUpToDate, CheckNeeded, CheckUnreadable, Create, Update, FailRow
<1>3. CASE GetExisting \/ Reread
  BY <1>3 DEF GetExisting, Reread
<1>4. CASE UpdateConflict
  BY <1>4 DEF UpdateConflict
<1>5. CASE UpdateConflictLast
  BY <1>5 DEF UpdateConflictLast, FailRow
<1>6. CASE UpdateGone \/ ApiError
  BY <1>6 DEF UpdateGone, ApiError, FailRow
<1>7. CASE Others
  <2>1. CASE raced' = raced + 1
    BY <1>7, <2>1, ForeignEffect
  <2>2. CASE UNCHANGED <<cur, raced>>
    BY <1>7, <2>2, ForeignEffect
  <2> QED
    BY <1>7, <2>1, <2>2, ForeignEffect
<1>8. CASE UNCHANGED vars
  BY <1>8 DEF vars, opVars
<1> QED
  BY <1>1, <1>2, <1>3, <1>4, <1>5, <1>6, <1>7, <1>8 DEF Next, Operator

\* A row fails with a conflict only if other actors wrote the child at least
\* maxRetries times meanwhile, however many writers there are.
THEOREM ConflictsAreEarned == Spec => []ConflictNeedsRaces
<1>1. Init => RaceInv
  BY DEF Init, RaceInv, ConflictNeedsRaces
<1>2. RaceInv => ConflictNeedsRaces
  BY DEF RaceInv
<1> QED
  BY <1>1, <1>2, RaceStep, ApplyTyped, PTL DEF Spec

----------------------------------------------------------------------------
(* Every write is one atomic overlay *)

\* A copy that still carries the stored resourceVersion is the stored object,
\* overlaid or not: this is what the optimistic lock buys.
CopyInv ==
  pc = "update" /\ cur =>
    live # None /\ (copy = live \/ copy = applyDesiredState(live, want))

\* Every step preserves it: foreign writes clear cur, and no step of the
\* operator changes want or live while it holds a copy.
LEMMA CopyStep == CopyInv /\ [Next]_vars => CopyInv'
<1> SUFFICES ASSUME CopyInv, [Next]_vars PROVE CopyInv'
  OBVIOUS
<1> USE DEF CopyInv
<1>1. CASE GetExisting
  <2>1. live' = live /\ want' = want
    BY <1>1 DEF GetExisting
  <2>2. pc' = "update" => live # None /\ copy' = applyDesiredState(live, want)
    BY <1>1 DEF GetExisting
  <2> QED
    BY <2>1, <2>2
<1>2. CASE Reread
  BY <1>2 DEF Reread
<1>3. CASE Operator /\ ~GetExisting /\ ~Reread
  BY <1>3 DEF Operator, BeginRow, CheckUpToDate, CheckNeeded, CheckUnreadable,
     FailRow, Create, Update, UpdateConflict, UpdateConflictLast, UpdateGone
<1>4. CASE ApiError
  BY <1>4 DEF ApiError, FailRow
<1>5. CASE Others
  <2>1. CASE cur' = FALSE
    BY <2>1
  <2>2. CASE UNCHANGED <<live, author, cur, raced>>
    BY <1>5, <2>2, ForeignEffect
  <2> QED
    BY <1>5, <2>1, <2>2, ForeignEffect
<1>6. CASE UNCHANGED vars
  BY <1>6 DEF vars, opVars
<1> QED
  BY <1>1, <1>2, <1>3, <1>4, <1>5, <1>6 DEF Next

\* With CopyInv, the update that lands writes the overlay of the live object.
LEMMA UpdateIsOverlay ==
  ASSUME TypeOK, CopyInv, Update
  PROVE  live # None /\ live' = Updated(live, want)
<1>1. live # None /\ (copy = live \/ copy = applyDesiredState(live, want))
  BY DEF CopyInv, Update
<1>2. applyDesiredState(applyDesiredState(live, want), want)
        = applyDesiredState(live, want)
  BY <1>1, OverlayTwice DEF TypeOK
<1>3. Updated(copy, want) = Updated(live, want)
  BY <1>1, <1>2 DEF Updated
<1> QED
  BY <1>1, <1>3 DEF Update

\* The operators of AtomicApply's instance are those of ChildObject.
LEMMA SameOperators ==
  /\ \A o, d : Atomic!Updated(o, d) = Updated(o, d)
  /\ \A o, d : Atomic!Patched(o, d) = Patched(o, d)
  /\ Atomic!Object = Object /\ Atomic!Desired = Desired
  BY DEF Atomic!Updated, Atomic!Patched, Atomic!Object, Atomic!Desired,
     Atomic!Config, Atomic!Annotations, Atomic!setLastAppliedConfig,
     Atomic!applyDesiredState, Atomic!MergeAnnotations, Atomic!ConfigOf,
     Updated, Patched, Object, Desired, Config, Annotations,
     setLastAppliedConfig, applyDesiredState, MergeAnnotations, ConfigOf

\* Every step of ChildApply is a step of AtomicApply or changes nothing there.
LEMMA RefineStep ==
  TypeOK /\ TypeOK' /\ CopyInv /\ [Next]_vars
    => [Atomic!Next]_<<live, author, want>>
<1> SUFFICES ASSUME TypeOK, TypeOK', CopyInv, [Next]_vars
             PROVE  Atomic!Next \/ UNCHANGED <<live, author, want>>
  OBVIOUS
<1>1. CASE BeginRow
  BY <1>1, SameOperators DEF BeginRow, TypeOK, Atomic!Next, Atomic!Render
<1>2. CASE Create
  BY <1>2, SameOperators DEF Create, Atomic!Next, Atomic!OperatorWrite
<1>3. CASE Update
  <2>1. live # None /\ live' = Updated(live, want)
    BY <1>3, UpdateIsOverlay
  <2> QED
    BY <1>3, <2>1, SameOperators DEF Update, Atomic!Next, Atomic!OperatorWrite
<1>4. CASE Operator /\ ~BeginRow /\ ~Create /\ ~Update
  BY <1>4 DEF Operator, CheckUpToDate, CheckNeeded, CheckUnreadable, FailRow,
     GetExisting, UpdateConflict, UpdateConflictLast, UpdateGone, Reread
<1>5. CASE ApiError
  BY <1>5 DEF ApiError, FailRow
<1>6. CASE Others
  <2>1. CASE author' = "foreign"
    <3>1. live' \in Object \cup {None} /\ want' = want
      BY <1>6, ForeignType, ForeignEffect
    <3> QED
      BY <2>1, <3>1, SameOperators DEF Atomic!Next, Atomic!ForeignWrite
  <2> QED
    BY <1>6, <2>1, ForeignEffect
<1>7. CASE UNCHANGED vars
  BY <1>7 DEF vars, opVars
<1> QED
  BY <1>1, <1>2, <1>3, <1>4, <1>5, <1>6, <1>7 DEF Next, Operator

\* ChildApply implements AtomicApply: the Get / overlay / Update sequence with
\* its retries is indistinguishable from one atomic overlay, so no write of
\* another actor is ever overwritten with an older reading.
THEOREM ApplyIsAtomic == Spec => WritesAreAtomic
<1>1. Init => CopyInv
  BY DEF Init, CopyInv
<1>2. Init => Atomic!Init
  BY WantedType, SameOperators DEF Init, Atomic!Init
<1> QED
  BY <1>1, <1>2, CopyStep, RefineStep, ApplyTyped, PTL
     DEF Spec, WritesAreAtomic, Atomic!Spec

----------------------------------------------------------------------------
(* The record of the last apply *)

\* RecordLanded together with what keeps it inductive: the operator's last
\* write left an object, with a readable record.
RecordInv == (author = "operator" => live # None /\ live.la \in Config) /\ RecordLanded

\* Every step preserves it; only the two writes have anything to show.
LEMMA RecordStep == TypeOK /\ CopyHeld /\ RecordInv /\ [Next]_vars => RecordInv'
<1> SUFFICES ASSUME TypeOK, CopyHeld, RecordInv, [Next]_vars PROVE RecordInv'
  OBVIOUS
<1>1. CASE Create
  <2>1. live' = Patched(live, want)
    BY <1>1 DEF Create
  <2>2. live' # None /\ live'.la = want /\ live'.body = want.body
    <3>1. live' # None
      BY <2>1, PatchedType, SentinelsDistinct DEF TypeOK
    <3>2. live'.la = want /\ live'.body = want.body
      BY <2>1 DEF Patched
    <3> QED
      BY <3>1, <3>2
  <2>3. ASSUME NEW a \in AnnKeys, want.anns[a] \in AnnVals
        PROVE  live'.anns[a] = want.anns[a]
    BY <2>1, <2>3, SentinelsDistinct DEF Patched
  <2>4. want \in Config
    BY DEF TypeOK, Desired
  <2>5. RecordLanded'
    BY <2>2, <2>3 DEF RecordLanded
  <2> QED
    BY <2>2, <2>4, <2>5 DEF RecordInv
<1>2. CASE Update
  <2>1. copy \in Object /\ want \in Desired /\ live' = Updated(copy, want)
    BY <1>2 DEF Update, CopyHeld, TypeOK
  <2>2. PICK o : o = applyDesiredState(copy, want)
    OBVIOUS
  <2>3. o \in Object
    BY <2>1, <2>2, OverlayType
  <2>4. live' = [o EXCEPT !.la = ConfigOf(o)]
    BY <2>1, <2>2 DEF Updated, setLastAppliedConfig
  <2>5. live' \in Object
    BY <2>1, UpdatedType
  <2>6. /\ live' # None
        /\ live'.la = ConfigOf(o)
        /\ live'.body = o.body
        /\ live'.anns = o.anns
    BY <2>3, <2>4, <2>5, SentinelsDistinct DEF Object
  <2>7. ConfigOf(o) \in Config /\ ConfigOf(o).body = o.body /\ ConfigOf(o).anns = o.anns
    BY <2>3 DEF ConfigOf, Config, Object
  <2> QED
    BY <2>6, <2>7 DEF RecordInv, RecordLanded
<1>3. CASE Operator /\ ~Create /\ ~Update
  <2>1. UNCHANGED <<live, author>>
    BY <1>3 DEF Operator, BeginRow, CheckUpToDate, CheckNeeded, CheckUnreadable,
       FailRow, GetExisting, UpdateConflict, UpdateConflictLast, UpdateGone, Reread
  <2> QED
    BY <2>1 DEF RecordInv, RecordLanded
<1>4. CASE ApiError
  BY <1>4 DEF ApiError, FailRow, RecordInv, RecordLanded
<1>5. CASE Others
  BY <1>5, ForeignEffect DEF RecordInv, RecordLanded
<1>6. CASE UNCHANGED vars
  BY <1>6 DEF vars, opVars, RecordInv, RecordLanded
<1> QED
  BY <1>1, <1>2, <1>3, <1>4, <1>5, <1>6 DEF Next, Operator

\* The last-applied annotation never claims a state that did not reach the
\* object, whatever the write raced with.
THEOREM RecordIsHonest == Spec => []RecordLanded
<1>1. Init => RecordInv
  BY DEF Init, RecordInv, RecordLanded
<1>2. RecordInv => RecordLanded
  BY DEF RecordInv
<1> QED
  BY <1>1, <1>2, RecordStep, ApplyTyped, PTL DEF Spec
=============================================================================
