--------------------------- MODULE SqlStatements ---------------------------
(***************************************************************************)
(* splitStatements of internal/util/postgres_client.go, which cuts the     *)
(* spec's query into the statements QueryRead sends one by one, and the    *)
(* way PostgreSQL itself finds the end of a statement, to compare it with. *)
(*                                                                         *)
(* A text is a sequence over Chars.  "x" stands for every letter and digit *)
(* and " " for white space; comments, which the code knows nothing of, and *)
(* E'...' strings are outside the alphabet.                                *)
(***************************************************************************)
EXTENDS Text

Chars == {"x", " ", ";", "'", "\"", "$"}
Quotes == {"'", "\""}

\* The text q[i..] up to and including the next "$" after i; <<>> if none.
UpToDollar(q, i) ==
  LET ends == {j \in (i + 1)..Len(q) : q[j] = "$"}
  IN IF ends = {} THEN <<>> ELSE SubSeq(q, i, Min(ends))

\* The statements between the positions cuts, the blank ones dropped.
Statements(q, cuts) ==
  LET pieces == CutAt(q, cuts)
  IN SelectSeq([n \in DOMAIN pieces |-> TrimSpace(pieces[n])], LAMBDA s : s # <<>>)

----------------------------------------------------------------------------
(* The code's scan *)

\* Bug: a quote character ends the other kind of quotes, too.
BugQuoteAfter(quote, c) ==
  IF quote = <<>> THEN <<c>> ELSE IF Len(quote) = 1 THEN <<>> ELSE quote

\* inSingleQuote and inDoubleQuote after the quote character c.
QuoteAfter(quote, c) ==
  IF quote = <<>> THEN <<c>> ELSE IF quote = <<c>> THEN <<>> ELSE quote

\* The loop body at character i.  s.quote is what opened the quotation that
\* i stands in (<<>>: none); up to s.done the text has been read already.
\* Outside '...' and "..." whatever stands between a "$" and the next one
\* is taken for the tag of a dollar quote.
ScanChar(q, s, i) ==
  LET tag == UpToDollar(q, i)
      dollar == q[i] = "$" /\ s.quote \notin {<<c>> : c \in Quotes} /\ tag # <<>>
  IN IF i <= s.done THEN s
     ELSE CASE dollar /\ s.quote = <<>> ->
                 [s EXCEPT !.quote = tag, !.done = i + Len(tag) - 1]
            [] dollar /\ s.quote = tag ->
                 [s EXCEPT !.quote = <<>>, !.done = i + Len(tag) - 1]
            [] q[i] \in Quotes -> [s EXCEPT !.quote = QuoteAfter(@, q[i])]
            [] q[i] = ";" /\ s.quote = <<>> -> [s EXCEPT !.cuts = @ \cup {i}]
            [] OTHER -> s

Scan(q) ==
  LET scan[i \in 0..Len(q)] ==
        IF i = 0 THEN [quote |-> <<>>, done |-> 0, cuts |-> {}]
                 ELSE ScanChar(q, scan[i - 1], i)
  IN scan[Len(q)]

splitStatements(q) == Statements(q, Scan(q).cuts)

----------------------------------------------------------------------------
(* PostgreSQL's lexical structure *)

DollarTag(q, i) ==
  LET tag == UpToDollar(q, i)
  IN IF \A j \in 2..(Len(tag) - 1) : tag[j] = "x" THEN tag ELSE <<>>

\* The last position of the token that starts at i.
TokenEnd(q, i) ==
  LET tag == DollarTag(q, i)
      closing ==
        CASE q[i] \in Quotes -> {j \in (i + 1)..Len(q) : q[j] = q[i]}
          [] q[i] = "$" /\ tag # <<>> ->
               {j \in (i + 2 * Len(tag) - 1)..Len(q) :
                  SubSeq(q, j - Len(tag) + 1, j) = tag}
          [] q[i] = "x" ->
               {j \in i..(Len(q) - 1) : q[j + 1] \notin {"x", "$"}}
          [] OTHER -> {i}
  IN IF closing = {} THEN Len(q) ELSE Min(closing)

\* A token starts at the first character and after every other token.
TokenStarts(q) ==
  LET upTo[i \in 0..Len(q)] ==
        IF i = 0 THEN {}
        ELSE upTo[i - 1] \cup
               (IF i = 1 \/ \E j \in upTo[i - 1] : TokenEnd(q, j) = i - 1
                  THEN {i} ELSE {})
  IN upTo[Len(q)]

PostgresStatements(q) == Statements(q, {i \in TokenStarts(q) : q[i] = ";"})

\* A "$" that PostgreSQL does not read as a dollar quote: one in a name such
\* as v$session, or one that belongs to no tag.
StrayDollar(q) ==
  \E i \in TokenStarts(q) :
    \/ q[i] = "x" /\ \E j \in i..TokenEnd(q, i) : q[j] = "$"
    \/ q[i] = "$" /\ DollarTag(q, i) = <<>>
=============================================================================
