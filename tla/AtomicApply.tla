---------------------------- MODULE AtomicApply ----------------------------
(***************************************************************************)
(* What applying a child promises: each write of the operator is ONE       *)
(* atomic overlay of the state the row rendered to on whatever the object  *)
(* is at that moment, never a write-back of an older reading; everything   *)
(* else that happens to the object is a write of another actor.            *)
(***************************************************************************)
EXTENDS ChildObject

VARIABLES live,    \* the object in the API server, or None
          author,  \* the manager of its last write
          want     \* what the row of the current pass rendered to

Init == live = None /\ author = "foreign" /\ want \in Desired

Render == want' \in Desired /\ UNCHANGED <<live, author>>

OperatorWrite ==
  /\ \/ live # None /\ live' = Updated(live, want)
     \/ live' = Patched(live, want)
  /\ author' = "operator"
  /\ UNCHANGED want

ForeignWrite ==
  /\ live' \in Object \cup {None}
  /\ author' = "foreign"
  /\ UNCHANGED want

Next == Render \/ OperatorWrite \/ ForeignWrite

Spec == Init /\ [][Next]_<<live, author, want>>
=============================================================================
