---------------------------- MODULE Identifiers ----------------------------
(***************************************************************************)
(* The two kinds of names the operator takes apart and puts together:      *)
(* table and column names of the detection query, and the "/"-separated    *)
(* names of GVKs and child objects that it keeps in CR statuses.           *)
(***************************************************************************)
EXTENDS Text

----------------------------------------------------------------------------
(* PostgreSQL identifiers.  "a" stands for a small letter or an underscore, *)
(* "A" for a capital, "1" for a digit, "-" for every other character but   *)
(* NUL.                                                                    *)

NameChars == {"a", "A", "1", "$", ".", "\"", "-"}

Invalid == <<>>

Quoted(p) == Len(p) >= 2 /\ p[1] = "\"" /\ p[Len(p)] = "\""
Inner(p) == SubSeq(p, 2, Len(p) - 1)

\* validPGUnquotedID
ValidUnquoted(p) ==
  /\ p # <<>> /\ p[1] \in {"a", "A"}
  /\ \A i \in DOMAIN p : p[i] \in {"a", "A", "1", "$"}

quotePGIdentifier(p) ==
  <<"\"">> \o ReplaceChar(p, "\"", <<"\"", "\"">>) \o <<"\"">>

\* Bug: a part that is not a name is quoted instead of refused.
BugSanitizePart(p) ==
  IF p = <<>> \/ p = <<"\"", "\"">> THEN Invalid
  ELSE IF Quoted(p) THEN p
  ELSE quotePGIdentifier(p)

\* A part in quotes is passed on as it is.
SanitizePart(p) ==
  CASE Quoted(p) -> IF Inner(p) = <<>> THEN Invalid ELSE p
    [] ValidUnquoted(p) -> quotePGIdentifier(p)
    [] OTHER -> Invalid

sanitizePGIdentifier(id) ==
  LET parts == Split(id, ".")
      clean == [n \in DOMAIN parts |-> SanitizePart(parts[n])]
  IN IF \E n \in DOMAIN clean : clean[n] = Invalid THEN Invalid ELSE Join(clean, ".")

\* How PostgreSQL reads a qualified name: dots count outside double quotes
\* only, and inside them a quote is doubled.
InQuotes(id, i) == Cardinality({j \in 1..(i - 1) : id[j] = "\""}) % 2 = 1

\* The quotes inside p come in adjacent pairs.
QuotesPaired(p) ==
  \A i \in DOMAIN p : p[i] = "\"" =>
    IF InQuotes(p, i) THEN p[i - 1] = "\"" ELSE i < Len(p) /\ p[i + 1] = "\""

\* A name that is not in quotes is folded to small letters.
Folded(p) == [i \in DOMAIN p |-> IF p[i] = "A" THEN "a" ELSE p[i]]

PostgresName(p) ==
  CASE Quoted(p) /\ Inner(p) # <<>> /\ QuotesPaired(Inner(p)) -> Inner(p)
    [] ValidUnquoted(p) -> Folded(p)
    [] OTHER -> Invalid

\* The names of a qualified name; Invalid if it is none.
PostgresNames(id) ==
  LET parts == CutAt(id, {i \in DOMAIN id : id[i] = "." /\ ~InQuotes(id, i)})
      names == [n \in DOMAIN parts |-> PostgresName(parts[n])]
  IN IF \E n \in DOMAIN names : names[n] = Invalid THEN Invalid ELSE names

\* What the code treats differently: a dot between quotes separates, the quotes
\* inside a part that is in quotes are not looked at, and a part without quotes
\* is put into quotes with its capitals.
DotInQuotes(id) == \E i \in DOMAIN id : id[i] = "." /\ InQuotes(id, i)
BareQuote(id) ==
  \E n \in DOMAIN Split(id, ".") :
    LET p == Split(id, ".")[n] IN Quoted(p) /\ ~QuotesPaired(Inner(p))
Capital(p) == ~Quoted(p) /\ \E i \in DOMAIN p : p[i] = "A"
BareCapital(id) == \E n \in DOMAIN Split(id, ".") : Capital(Split(id, ".")[n])

----------------------------------------------------------------------------
(* GVK patterns and object keys.  "w" stands for a word without separators. *)

GVKChars == {"w", "/", ";", " "}

\* Bug: an entry is invalid only if version and kind are both missing.
BugParseGVK(entry) ==
  LET parts == Split(TrimSpace(entry), "/")
      gvk == CASE Len(parts) = 2 -> <<<<>>, parts[1], parts[2]>>
               [] Len(parts) = 3 -> parts
               [] OTHER -> <<<<>>, <<>>, <<>>>>
  IN IF gvk[2] = <<>> /\ gvk[3] = <<>> THEN Invalid ELSE gvk

\* One entry: version/kind or group/version/kind, as <<group, version, kind>>.
ParseGVK(entry) ==
  LET parts == Split(TrimSpace(entry), "/")
      gvk == CASE Len(parts) = 2 -> <<<<>>, parts[1], parts[2]>>
               [] Len(parts) = 3 -> parts
               [] OTHER -> <<<<>>, <<>>, <<>>>>
  IN IF gvk[2] = <<>> \/ gvk[3] = <<>> THEN Invalid ELSE gvk

\* The GVKs of the entries that are valid; none at all is an error.
ParseGVKs(pattern) ==
  LET entries == Split(pattern, ";")
  IN {ParseGVK(entries[n]) : n \in DOMAIN entries} \ {Invalid}

\* namespace is <<>> for a cluster-scoped object.
getObjectKey(gvk, namespace, name) == Join(gvk \o <<namespace, name>>, "/")

\* What a pass makes of an entry of Status.ManagedResources: the parts of the
\* object to Get.  collectAllChildResources skips an entry without a kind or
\* a name, or with more parts.
ParseKey(key) ==
  LET parts == Split(key, "/")
  IN IF Len(parts) = 5 /\ parts[3] # <<>> /\ parts[5] # <<>> THEN parts ELSE Invalid
=============================================================================
