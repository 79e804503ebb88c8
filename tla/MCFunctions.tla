---------------------------- MODULE MCFunctions ----------------------------
(***************************************************************************)
(* The operator's pure functions, called once each on every input of a     *)
(* small domain, and what their results have to be.                        *)
(***************************************************************************)
EXTENDS SqlStatements, Identifiers

CONSTANTS Durations, QueryLength, SpacedLength, NameLength, PatternLength

\* time.ParseDuration reads zero and negative durations, too.
ASSUME DurationsAssumption == Durations \subseteq Int

ASSUME LengthsAssumption ==
  /\ QueryLength \in Nat /\ SpacedLength \in Nat
  /\ NameLength \in Nat /\ PatternLength \in Nat

A == INSTANCE Admission
D == INSTANCE DbConfig

VARIABLES fn, arg, result

vars == <<fn, arg, result>>

Returned(f) == fn = f /\ result # <<>>
Value == result[1]

----------------------------------------------------------------------------
(* The inputs *)

\* arg is a text over the characters S, of length n at most.
ArgText(S, n) == \E m \in 0..n : arg \in [1..m -> S]

\* Only the intervals and the templates are read together by the reconciler;
\* the other fields vary on their own.
FineSpec == [poll |-> [text |-> "fine", d |-> 2], secretName |-> "fine",
             query |-> "fine", template |-> "fine", statusTemplate |-> "fine",
             detection |-> [set |-> TRUE, enabled |-> TRUE,
                            every |-> [text |-> "fine", d |-> 1]]]

ArgSpec ==
  \/ \E p \in A!Interval, t \in A!Texts, u \in A!Texts, d \in A!Detection :
       arg = [FineSpec EXCEPT !.poll = p, !.template = t, !.statusTemplate = u,
                              !.detection = d]
  \/ \E s \in {"empty", "blank", "fine"}, q \in {"empty", "blank", "fine"} :
       arg = [FineSpec EXCEPT !.secretName = s, !.query = q]

\* Up to two parameters are named by the CR, up to two of the Secret's
\* entries under named keys and under default keys are missing.
Few(S) == {T \in SUBSET S : Cardinality(T) <= 2}

ArgConfig ==
  \/ \E n \in Few(D!Params), m \in Few(D!Params), d \in Few(D!Params) :
       arg = <<[named |-> n, uriKey |-> FALSE],
               [exists |-> TRUE, named |-> n \ m, default |-> D!Params \ d,
                uri |-> TRUE, scheme |-> TRUE, parts |-> D!Fields]>>
  \/ \E n \in Few(D!Params), e \in BOOLEAN, u \in BOOLEAN, s \in BOOLEAN,
        p \in SUBSET D!Fields :
       arg = <<[named |-> n, uriKey |-> TRUE],
               [exists |-> e, named |-> {}, default |-> D!Params,
                uri |-> u, scheme |-> s, parts |-> p]>>

Init ==
  /\ \/ fn = "splitStatements" /\ ArgText(Chars \ {" "}, QueryLength)
     \/ fn = "splitStatements" /\ ArgText(Chars, SpacedLength)
     \/ fn = "sanitizePGIdentifier" /\ ArgText(NameChars, NameLength)
     \/ fn = "ParseGVKs" /\ ArgText(GVKChars, PatternLength)
     \/ fn = "validateSpec" /\ ArgSpec
     \/ fn = "getDBConfig" /\ ArgConfig
  /\ result = <<>>

Call(f, value) ==
  /\ fn = f /\ result = <<>>
  /\ result' = <<value>>
  /\ UNCHANGED <<fn, arg>>

Next ==
  \/ Call("splitStatements", splitStatements(arg))
  \/ Call("sanitizePGIdentifier", sanitizePGIdentifier(arg))
  \/ Call("ParseGVKs", ParseGVKs(arg))
  \/ Call("validateSpec", [errors |-> A!Violations(arg), warns |-> A!Warns(arg)])
  \/ Call("getDBConfig", D!getDBConfig(arg[1], arg[2]))

Spec == Init /\ [][Next]_vars

----------------------------------------------------------------------------
(* What the results have to be *)

\* splitStatements cuts a query where PostgreSQL ends a statement, whatever
\* quotes and dollar quotes, also unterminated ones, stand in it: the batch
\* and the select that QueryRead sends are the statements the user wrote.
\* A "$" that is not part of a dollar quote is beyond the code's scan.
SplitsLikePostgres ==
  Returned("splitStatements") /\ ~StrayDollar(arg) => Value = PostgresStatements(arg)

\* A text that is no name never gets into the detection query, and the table
\* and column names that do are those PostgreSQL would read in the text of the
\* CR, if that writes no capital outside quotes: PostgreSQL folds such a name to
\* small letters, and the code sends it in quotes as it is (C:1366).  A dot
\* between double quotes and a quote there that is not doubled are beyond the
\* code's check.
NamesKeepTheirMeaning ==
  Returned("sanitizePGIdentifier") /\ ~DotInQuotes(arg) /\ ~BareQuote(arg) =>
    /\ PostgresNames(arg) = Invalid => Value = Invalid
    /\ ~BareCapital(arg) => PostgresNames(Value) = PostgresNames(arg)

\* The key of a child of a watched GVK, namespaced or not, in the core group
\* or another one, leads back to that child when a later pass parses it from
\* Status.ManagedResources, where a key it cannot parse is silently skipped.
KeysLeadBack ==
  Returned("ParseGVKs") =>
    \A gvk \in Value, ns \in {<<>>, <<"w">>} :
      ParseKey(getObjectKey(gvk, ns, <<"w">>)) = gvk \o <<ns, <<"w">>>>

\* No pass over an admitted spec parks the CR: whichever way the pass goes,
\* its result schedules a further run.
AdmittedKeepsPolling ==
  Returned("validateSpec") /\ Value.errors = {} => \A d \in A!Requeues(arg) : d > 0

\* The webhook warns about an admitted spec exactly if its change detection
\* does not make the controller look at the database any sooner.
WarnsIfNothingGained ==
  Returned("validateSpec") /\ Value.errors = {} =>
    (Value.warns <=>
       /\ A!Detecting(arg)
       /\ A!nextRequeueInterval(arg) =
            A!nextRequeueInterval([arg EXCEPT !.detection.enabled = FALSE]))

\* What each parameter of a configuration for ref may be.
OneSource(ref, config) ==
  \A p \in D!Params :
    config[p] \in
      IF ref.uriKey THEN {<<p, "uri">>} \cup
        CASE p \in {"port", "sslmode"} -> {D!Builtin(p)}
          [] p \in {"username", "password", "readonly_host"} -> {D!Missing(p)}
          [] OTHER -> {}
      ELSE IF p = "readonly_host" /\ p \notin ref.named
        THEN {<<p, "default">>, D!Missing(p)}
      ELSE IF p = "readonly_host" THEN {<<p, "named">>, D!Missing(p)}
      ELSE IF p \in ref.named THEN {<<p, "named">>}
      ELSE {<<p, "default">>} \cup (IF p = "sslmode" THEN {D!Builtin(p)} ELSE {})

\* A configuration is taken from one place: from the URI alone or from the
\* entries alone; a key the CR names is never replaced by a default one, and
\* a missing entry is an error unless the docs give the parameter a default.
ConfigFromOnePlace ==
  Returned("getDBConfig") /\ Value # D!Failure => OneSource(arg[1], Value)
=============================================================================
