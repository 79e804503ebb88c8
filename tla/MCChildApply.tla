--------------------------- MODULE MCChildApply ----------------------------
(* Small instances of ChildApply: one annotation key the template may set  *)
(* (own) and one it never mentions (argo).                                 *)
EXTENDS ChildApply

CONSTANTS own, argo, b1, b2, x

Anns(v) == [a \in AnnKeys |-> IF a = own THEN v ELSE None]

\* Rows that differ in spec, data or labels only.
PlainWanted == {[body |-> b, anns |-> Anns(x)] : b \in {b1, b2}}

\* Rows that also drop the annotation, or empty it.
EmptyWanted ==
  PlainWanted \cup {[body |-> b1, anns |-> Anns(v)] : v \in {None, Empty}}
=============================================================================
