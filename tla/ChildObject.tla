---------------------------- MODULE ChildObject ----------------------------
(***************************************************************************)
(* A child object as the operator sees it, and the pure functions the      *)
(* operator applies to it.  body stands for spec, data and labels, which   *)
(* applyDesiredState all replaces outright; anns for the annotations other *)
(* than LastAppliedConfigAnnotation; la for the content of that one.       *)
(***************************************************************************)
CONSTANTS
  Bodies,    \* contents of spec, data and labels
  AnnKeys,   \* annotation keys, the operator's and other actors'
  AnnVals,   \* non-empty annotation values
  None,      \* key not present / no such annotation / no object
  Empty,     \* the annotation value ""
  Garbage    \* a last-applied annotation that is not valid JSON

Annotations == [AnnKeys -> AnnVals \cup {Empty, None}]

\* managedResourceConfig, after the JSON normalisation of configsEqual.
Config == [body : Bodies, anns : Annotations]

\* What a template renders to: a config without the last-applied entry.
Desired == Config

Object == [body : Bodies, anns : Annotations, la : Config \cup {None, Garbage}]

ASSUME SentinelsDistinct ==
  /\ None # Empty /\ None # Garbage
  /\ None \notin AnnVals /\ Empty \notin AnnVals
  /\ None \notin Config /\ Garbage \notin Config /\ None \notin Object

ConfigOf(o) == [body |-> o.body, anns |-> o.anns]

\* Annotations are merged key by key; an empty value removes the key.
MergeAnnotations(old, new) ==
  [a \in AnnKeys |-> IF new[a] = None THEN old[a]
                     ELSE IF new[a] = Empty THEN None
                     ELSE new[a]]

applyDesiredState(o, d) ==
  [o EXCEPT !.body = d.body, !.anns = MergeAnnotations(o.anns, d.anns)]

\* Bug: a record that is there already is kept.
BugSetLastApplied(o) ==
  IF o.la \in Config THEN o ELSE [o EXCEPT !.la = ConfigOf(o)]

\* The configuration stored is that of the object passed in: for an update
\* the live object after the overlay, for a creation the rendered one.
setLastAppliedConfig(o) == [o EXCEPT !.la = ConfigOf(o)]

\* An update that lands writes this over the object o.
Updated(o, d) == setLastAppliedConfig(applyDesiredState(o, d))

\* Server-Side Apply of the rendered object, forcing ownership: creates it,
\* or, should it have appeared meanwhile, sets the fields it renders.
Patched(o, d) ==
  IF o = None
    THEN [body |-> d.body, anns |-> d.anns, la |-> d]
    ELSE [body |-> d.body, la |-> d,
          anns |-> [a \in AnnKeys |-> IF d.anns[a] = None THEN o.anns[a] ELSE d.anns[a]]]

----------------------------------------------------------------------------
(* What shouldUpdateResource makes of an object that exists *)

Unreadable(o) == o.la = Garbage
UpToDate(o, d) == o.la = d
=============================================================================
