-------------------------------- MODULE Text --------------------------------
(***************************************************************************)
(* The string functions of the Go library that the operator's parsers use, *)
(* over texts: sequences of characters.                                    *)
(***************************************************************************)
EXTENDS Naturals, SequencesExt

\* s from the first of the positions at to the last one.
Stretch(s, at) == IF at = {} THEN <<>> ELSE SubSeq(s, Min(at), Max(at))

\* strings.TrimSpace
TrimSpace(s) == Stretch(s, {i \in DOMAIN s : s[i] # " "})

\* The pieces of s between the positions cuts, blank ones included: the nth
\* one has n - 1 cuts before it.
Before(cuts, i) == Cardinality({c \in cuts : c < i})
PieceAt(s, cuts, n) == {i \in DOMAIN s \ cuts : Before(cuts, i) = n - 1}
CutAt(s, cuts) ==
  [n \in 1..(Cardinality(cuts) + 1) |-> Stretch(s, PieceAt(s, cuts, n))]

\* strings.Split at one separator character
Split(s, sep) == CutAt(s, {i \in DOMAIN s : s[i] = sep})

\* strings.Join with one separator character
Join(parts, sep) ==
  LET joined[n \in 1..Len(parts)] ==
        IF n = 1 THEN parts[1] ELSE joined[n - 1] \o <<sep>> \o parts[n]
  IN joined[Len(parts)]

\* strings.ReplaceAll of one character
ReplaceChar(s, c, by) ==
  IF \A i \in DOMAIN s : s[i] # c THEN s
  ELSE FlattenSeq([i \in DOMAIN s |-> IF s[i] = c THEN by ELSE <<s[i]>>])
=============================================================================
