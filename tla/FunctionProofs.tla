--------------------------- MODULE FunctionProofs ---------------------------
(* What the webhook and the reconciler make of every spec, with intervals  *)
(* of any length, what the configuration reader makes of every Secret, and *)
(* what the parsers make of texts of any length.                           *)
EXTENDS MCFunctions, TextProofs

----------------------------------------------------------------------------
(* Admission *)

\* The specs, with all the durations there are.
All == INSTANCE Admission WITH Durations <- Int

\* What an admitted spec says of its intervals.
LEMMA AdmittedIntervals ==
  ASSUME NEW spec \in All!Specs, A!Violations(spec) = {}
  PROVE  /\ spec.poll.text = "fine" /\ spec.poll.d \in Int /\ spec.poll.d > 0
         /\ spec.template # "unparsable"
         /\ A!Detecting(spec) => /\ A!ValidInterval(spec.poll)
                                 /\ A!ValidInterval(spec.detection.every)
                                 /\ A!ChangePoll(spec) = spec.detection.every.d
                                 /\ A!ChangePoll(spec) \in Int
                                 /\ A!ChangePoll(spec) > 0
<1>1. /\ "poll" \notin A!Violations(spec) /\ "template" \notin A!Violations(spec)
      /\ "every" \notin A!Violations(spec)
  OBVIOUS
<1>2. A!ValidInterval(spec.poll) /\ spec.template = "fine"
  BY <1>1 DEF A!Violations
<1>3. spec.detection.set => A!ValidInterval(spec.detection.every)
  BY <1>1 DEF A!Violations
<1>4. spec.poll \in All!Interval /\ spec.detection.every \in All!Interval
  BY DEF All!Specs, All!Detection
<1>5. \A i \in All!Interval : A!ValidInterval(i) => i.text = "fine" /\ i.d \in Int /\ i.d > 0
  BY DEF All!Interval, A!ValidInterval
<1> QED
  BY <1>2, <1>3, <1>4, <1>5 DEF A!Detecting, A!ChangePoll

\* Every result of a pass over an admitted spec schedules a further run: the
\* intervals, the shorter one of the two, and whatever is left of it.
LEMMA PositiveRequeues ==
  ASSUME NEW spec \in All!Specs, A!Violations(spec) = {}
  PROVE  \A d \in A!Requeues(spec) : d > 0
<1>1. A!nextRequeueInterval(spec) > 0
  BY AdmittedIntervals DEF A!nextRequeueInterval
<1>2. A!Detecting(spec) =>
        \A t \in 0..(A!ChangePoll(spec) - 1) : A!ChangePoll(spec) - t > 0
  BY AdmittedIntervals
<1> QED
  BY <1>1, <1>2, AdmittedIntervals DEF A!Requeues

\* The warning is about the specs whose detection does not shorten the
\* interval that the controller asks for.
LEMMA WarningsAreRight ==
  ASSUME NEW spec \in All!Specs, A!Violations(spec) = {}
  PROVE  A!Warns(spec) <=>
           /\ A!Detecting(spec)
           /\ A!nextRequeueInterval(spec) =
                A!nextRequeueInterval([spec EXCEPT !.detection.enabled = FALSE])
<1> DEFINE off == [spec EXCEPT !.detection.enabled = FALSE]
<1>1. ~A!Detecting(off) /\ off.poll = spec.poll
  BY DEF All!Specs, All!Detection, A!Detecting
<1>2. A!nextRequeueInterval(off) = spec.poll.d
  BY <1>1 DEF A!nextRequeueInterval
<1>3. A!Warns(spec) => A!Detecting(spec)
  BY DEF A!Warns, A!Detecting
<1>4. ASSUME A!Detecting(spec)
      PROVE  A!Warns(spec) <=> A!nextRequeueInterval(spec) = spec.poll.d
  <2>1. A!Warns(spec) <=> spec.detection.every.d >= spec.poll.d
    BY <1>4, AdmittedIntervals DEF A!Warns, A!Detecting
  <2>2. A!nextRequeueInterval(spec) = IF spec.detection.every.d < spec.poll.d
                                        THEN spec.detection.every.d ELSE spec.poll.d
    BY <1>4, AdmittedIntervals DEF A!nextRequeueInterval
  <2> QED
    BY <1>4, <2>1, <2>2, AdmittedIntervals
<1> QED
  BY <1>2, <1>3, <1>4

----------------------------------------------------------------------------
(* The configuration *)

\* From a URI, everything is a part of it, or one of the two defaults, or
\* optional.
LEMMA UriIsOneSource ==
  ASSUME NEW ref, NEW secret \in D!Secret, ref.uriKey,
         D!parsePostgreSQLURI(secret) # D!Failure
  PROVE  OneSource(ref, D!parsePostgreSQLURI(secret))
<1>1. {"host", "dbname"} \subseteq secret.parts
  BY DEF D!parsePostgreSQLURI
<1>2. \A p \in D!Params : D!parsePostgreSQLURI(secret)[p] =
        IF p \in secret.parts THEN <<p, "uri">>
        ELSE IF p \in {"port", "sslmode"} THEN D!Builtin(p) ELSE D!Missing(p)
  BY DEF D!parsePostgreSQLURI
<1>3. "readonly_host" \notin secret.parts
  BY DEF D!Secret, D!Fields
<1> QED
  BY <1>1, <1>2, <1>3 DEF OneSource, D!Params, D!Fields

\* From the entries, a parameter with a key in the CR has that entry and no
\* other, and one without has the default entry or a documented default.
LEMMA EntriesAreOneSource ==
  ASSUME NEW ref \in D!Ref, NEW secret \in D!Secret, ~ref.uriKey,
         D!getDBConfig(ref, secret) # D!Failure
  PROVE  OneSource(ref, D!getDBConfig(ref, secret))
<1> DEFINE values == [p \in D!Params |-> D!getValue(ref, secret, p)]
<1>1. /\ D!getDBConfig(ref, secret) = values
      /\ \A p \in D!Fields : values[p] # D!Missing(p)
  BY DEF D!getDBConfig
<1>2. ASSUME NEW p \in D!Fields
      PROVE  values[p] \in
               IF p \in ref.named THEN {<<p, "named">>}
               ELSE {<<p, "default">>} \cup (IF p = "sslmode" THEN {D!Builtin(p)} ELSE {})
  <2>1. values[p] = D!getValue(ref, secret, p)
    BY DEF D!Params
  <2> QED
    BY <1>1, <2>1 DEF D!getValue
<1>3. values["readonly_host"] \in
        IF "readonly_host" \in ref.named
          THEN {<<"readonly_host", "named">>, D!Missing("readonly_host")}
          ELSE {<<"readonly_host", "default">>, D!Missing("readonly_host")}
  BY DEF D!Params, D!getValue
<1>4. "readonly_host" \notin D!Fields /\ D!Params = D!Fields \cup {"readonly_host"}
  BY DEF D!Fields, D!Params
<1> HIDE DEF values
<1> QED
  BY <1>1, <1>2, <1>3, <1>4 DEF OneSource

LEMMA ConfigIsOneSource ==
  ASSUME NEW ref \in D!Ref, NEW secret \in D!Secret,
         D!getDBConfig(ref, secret) # D!Failure
  PROVE  OneSource(ref, D!getDBConfig(ref, secret))
<1>1. CASE ref.uriKey
  <2>1. D!getDBConfig(ref, secret) = D!parsePostgreSQLURI(secret)
    BY <1>1 DEF D!getDBConfig
  <2> QED
    BY <1>1, <2>1, UriIsOneSource
<1> QED
  BY <1>1, EntriesAreOneSource

----------------------------------------------------------------------------
(* The calls *)

\* The inputs are of the functions' types, and a result is the function's.
CallInv ==
  /\ fn = "splitStatements" =>
       arg \in Seq(Chars) /\ result \in {<<>>, <<splitStatements(arg)>>}
  /\ fn = "sanitizePGIdentifier" =>
       arg \in Seq(NameChars) /\ result \in {<<>>, <<sanitizePGIdentifier(arg)>>}
  /\ fn = "ParseGVKs" =>
       arg \in Seq(GVKChars) /\ result \in {<<>>, <<ParseGVKs(arg)>>}
  /\ fn = "validateSpec" =>
       /\ arg \in All!Specs
       /\ result \in {<<>>, <<[errors |-> A!Violations(arg), warns |-> A!Warns(arg)]>>}
  /\ fn = "getDBConfig" =>
       /\ arg \in D!Ref \X D!Secret
       /\ result \in {<<>>, <<D!getDBConfig(arg[1], arg[2])>>}

LEMMA SpecInputs == ArgSpec => arg \in All!Specs
<1>1. \A i \in A!Interval : i \in All!Interval
  BY DurationsAssumption DEF A!Interval, All!Interval
<1>2. FineSpec \in All!Specs
  BY DEF FineSpec, All!Specs, All!Interval, All!Detection, All!Texts
<1>3. \A d \in A!Detection : d \in All!Detection
  BY <1>1 DEF A!Detection, All!Detection
<1>4. A!Texts = All!Texts
  BY DEF A!Texts, All!Texts
<1>5. ASSUME NEW p \in A!Interval, NEW t \in A!Texts, NEW u \in A!Texts,
             NEW d \in A!Detection
      PROVE  [FineSpec EXCEPT !.poll = p, !.template = t, !.statusTemplate = u,
                              !.detection = d] \in All!Specs
  BY <1>1, <1>2, <1>3, <1>4 DEF All!Specs
<1>6. ASSUME NEW s \in {"empty", "blank", "fine"}, NEW q \in {"empty", "blank", "fine"}
      PROVE  [FineSpec EXCEPT !.secretName = s, !.query = q] \in All!Specs
  BY <1>2 DEF All!Specs
<1>7. ASSUME NEW p \in A!Interval, NEW t \in A!Texts, NEW u \in A!Texts,
             NEW d \in A!Detection,
             arg = [FineSpec EXCEPT !.poll = p, !.template = t, !.statusTemplate = u,
                                    !.detection = d]
      PROVE  arg \in All!Specs
  BY <1>5, <1>7, Zenon
<1>8. ASSUME NEW s \in {"empty", "blank", "fine"}, NEW q \in {"empty", "blank", "fine"},
             arg = [FineSpec EXCEPT !.secretName = s, !.query = q]
      PROVE  arg \in All!Specs
  BY <1>6, <1>8, Zenon
<1> QED
  BY <1>7, <1>8, Zenon DEF ArgSpec

LEMMA ConfigInputs == ArgConfig => arg \in D!Ref \X D!Secret
<1>1. \A n \in Few(D!Params) : n \subseteq D!Params
  BY DEF Few
<1>2. ASSUME NEW n \in SUBSET D!Params, NEW b \in BOOLEAN
      PROVE  [named |-> n, uriKey |-> b] \in D!Ref
  BY DEF D!Ref
<1>3. ASSUME NEW e \in BOOLEAN, NEW n \in SUBSET D!Params, NEW d \in SUBSET D!Params,
             NEW u \in BOOLEAN, NEW s \in BOOLEAN, NEW p \in SUBSET D!Fields
      PROVE  [exists |-> e, named |-> n, default |-> d, uri |-> u, scheme |-> s,
              parts |-> p] \in D!Secret
  BY DEF D!Secret
<1>4. ASSUME NEW n \in Few(D!Params), NEW m \in Few(D!Params), NEW d \in Few(D!Params),
             arg = <<[named |-> n, uriKey |-> FALSE],
                     [exists |-> TRUE, named |-> n \ m, default |-> D!Params \ d,
                      uri |-> TRUE, scheme |-> TRUE, parts |-> D!Fields]>>
      PROVE  arg \in D!Ref \X D!Secret
  <2>1. [named |-> n, uriKey |-> FALSE] \in D!Ref
    BY <1>1, <1>2
  <2>2. [exists |-> TRUE, named |-> n \ m, default |-> D!Params \ d,
         uri |-> TRUE, scheme |-> TRUE, parts |-> D!Fields] \in D!Secret
    BY <1>1, <1>3
  <2> QED
    BY <1>4, <2>1, <2>2
<1>5. ASSUME NEW n \in Few(D!Params), NEW e \in BOOLEAN, NEW u \in BOOLEAN,
             NEW s \in BOOLEAN, NEW p \in SUBSET D!Fields,
             arg = <<[named |-> n, uriKey |-> TRUE],
                     [exists |-> e, named |-> {}, default |-> D!Params,
                      uri |-> u, scheme |-> s, parts |-> p]>>
      PROVE  arg \in D!Ref \X D!Secret
  <2>1. [named |-> n, uriKey |-> TRUE] \in D!Ref
    BY <1>1, <1>2
  <2>2. [exists |-> e, named |-> {}, default |-> D!Params,
         uri |-> u, scheme |-> s, parts |-> p] \in D!Secret
    BY <1>3
  <2> QED
    BY <1>5, <2>1, <2>2
<1> QED
  BY <1>4, <1>5, Zenon DEF ArgConfig

LEMMA TextInputs ==
  ASSUME NEW S, NEW X, S \subseteq X, NEW n \in Nat, ArgText(S, n)
  PROVE  arg \in Seq(X)
<1>1. PICK m \in 0..n : arg \in [1..m -> S]
  BY DEF ArgText
<1>2. arg \in Seq(S)
  BY <1>1, SeqDef, m \in Nat
<1> QED
  BY <1>2, SeqMonotonic

LEMMA CallInductive == Spec => []CallInv
<1>1. Init => CallInv
  <2> SUFFICES ASSUME Init PROVE CallInv
    OBVIOUS
  <2>1. result = <<>>
    BY DEF Init
  <2>2. fn = "splitStatements" => arg \in Seq(Chars)
    <3>1. ArgText(Chars \ {" "}, QueryLength) => arg \in Seq(Chars)
      BY LengthsAssumption, TextInputs, Chars \ {" "} \subseteq Chars
    <3>2. ArgText(Chars, SpacedLength) => arg \in Seq(Chars)
      BY LengthsAssumption, TextInputs, Chars \subseteq Chars
    <3> QED
      BY <3>1, <3>2 DEF Init
  <2>3. fn = "sanitizePGIdentifier" => arg \in Seq(NameChars)
    <3>1. ArgText(NameChars, NameLength) => arg \in Seq(NameChars)
      BY LengthsAssumption, TextInputs, NameChars \subseteq NameChars
    <3> QED
      BY <3>1 DEF Init
  <2>4. fn = "ParseGVKs" => arg \in Seq(GVKChars)
    <3>1. ArgText(GVKChars, PatternLength) => arg \in Seq(GVKChars)
      BY LengthsAssumption, TextInputs, GVKChars \subseteq GVKChars
    <3> QED
      BY <3>1 DEF Init
  <2>5. (fn = "validateSpec" => ArgSpec) /\ (fn = "getDBConfig" => ArgConfig)
    BY DEF Init
  <2> QED
    BY <2>1, <2>2, <2>3, <2>4, <2>5, SpecInputs, ConfigInputs DEF CallInv
<1>2. CallInv /\ [Next]_vars => CallInv'
  BY DEF CallInv, Next, Call, vars
<1> QED
  BY <1>1, <1>2, PTL DEF Spec

\* Whatever intervals a CR has, if the webhook admits them no pass over it
\* ends without a further one being scheduled.
THEOREM AdmittedIsPolled == Spec => []AdmittedKeepsPolling
<1>1. CallInv => AdmittedKeepsPolling
  BY PositiveRequeues DEF CallInv, AdmittedKeepsPolling, Returned, Value
<1> QED
  BY <1>1, CallInductive, PTL

\* The webhook's warning and the interval the controller computes agree for
\* all intervals.
THEOREM WarningIsExact == Spec => []WarnsIfNothingGained
<1>1. CallInv => WarnsIfNothingGained
  BY WarningsAreRight DEF CallInv, WarnsIfNothingGained, Returned, Value
<1> QED
  BY <1>1, CallInductive, PTL

\* No Secret makes a configuration of two sources, or replaces a key that the
\* CR names by a default one.
THEOREM ConfigHasOneSource == Spec => []ConfigFromOnePlace
<1>1. CallInv => ConfigFromOnePlace
  BY ConfigIsOneSource DEF CallInv, ConfigFromOnePlace, Returned, Value
<1> QED
  BY <1>1, CallInductive, PTL

\* Whatever the query, if PostgreSQL reads each "$" in it as part of a dollar
\* quote, QueryRead sends the statements the user wrote, each of them whole.
THEOREM StatementsAreWhole == Spec => []SplitsLikePostgres
<1>1. CallInv => SplitsLikePostgres
  BY SplitsRight DEF CallInv, SplitsLikePostgres, Returned, Value
<1> QED
  BY <1>1, CallInductive, PTL

\* Whatever the CR names as table and column, a text that is no name stays out
\* of the detection query, and a name without a capital outside quotes, which
\* PostgreSQL would fold and the code does not (C:1366), is the same name there,
\* where no dot stands in quotes and no quote inside a quoted part is bare.
THEOREM NamesAreThoseOfTheCR == Spec => []NamesKeepTheirMeaning
<1>1. CallInv => NamesKeepTheirMeaning
  BY NamesAreKept DEF CallInv, NamesKeepTheirMeaning, Returned, Value
<1> QED
  BY <1>1, CallInductive, PTL

\* Whatever GVKs the operator watches, no later pass loses one of their
\* children because it cannot read its key.
THEOREM NoKeyIsLost == Spec => []KeysLeadBack
<1>1. CallInv => KeysLeadBack
  <2> SUFFICES ASSUME CallInv, Returned("ParseGVKs"),
                      NEW gvk \in Value, NEW ns \in {<<>>, <<"w">>}
               PROVE  ParseKey(getObjectKey(gvk, ns, <<"w">>)) = gvk \o <<ns, <<"w">>>>
    BY DEF KeysLeadBack
  <2>1. arg \in Seq(GVKChars) /\ Value = ParseGVKs(arg)
    BY DEF CallInv, Returned, Value
  <2> QED
    BY <2>1, ChildKeys
<1> QED
  BY <1>1, CallInductive, PTL
=============================================================================
