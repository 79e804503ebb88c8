------------------------------ MODULE Admission ------------------------------
(***************************************************************************)
(* validateSpec of the validating webhook, and what the reconciler later   *)
(* does with the fields of an admitted spec.  A text field is represented  *)
(* by what the two can tell apart; durations are small integers.           *)
(***************************************************************************)
EXTENDS Integers, FiniteSets

CONSTANTS Durations   \* the values of the duration fields that parse

DefaultChangePoll == 10    \* seconds; the fallback of shouldReconcile

Texts == {"empty", "blank", "unparsable", "fine"}

\* A duration field: its value when it parses.
Interval == [text : {"fine"}, d : Durations] \cup
            [text : {"empty", "blank", "unparsable"}, d : {0}]

\* spec.changeDetection; set = FALSE: the field is nil.
Detection == [set : BOOLEAN, enabled : BOOLEAN, every : Interval]

Specs == [poll : Interval, secretName : {"empty", "blank", "fine"},
          query : {"empty", "blank", "fine"}, template : Texts,
          statusTemplate : Texts, detection : Detection]

----------------------------------------------------------------------------
(* The webhook *)

\* Bug: zero passes as an interval.
BugValidInterval(i) == i.text = "fine" /\ i.d >= 0

\* validateDuration reports no error.
ValidInterval(i) == i.text = "fine" /\ i.d > 0

\* The fields that validateSpec puts an error on.
Violations(spec) ==
  {f \in {"poll"} : ~ValidInterval(spec.poll)} \cup
  {f \in {"secretName"} : spec.secretName # "fine"} \cup
  {f \in {"query"} : spec.query # "fine"} \cup
  {f \in {"template"} : spec.template # "fine"} \cup
  {f \in {"statusTemplate"} : spec.statusTemplate = "unparsable"} \cup
  {f \in {"every"} : spec.detection.set /\ ~ValidInterval(spec.detection.every)}

\* Bug: equal intervals are not warned about.
BugWarns(spec) ==
  /\ spec.detection.set /\ spec.detection.enabled
  /\ ValidInterval(spec.poll) /\ ValidInterval(spec.detection.every)
  /\ spec.detection.every.d > spec.poll.d

Warns(spec) ==
  /\ spec.detection.set /\ spec.detection.enabled
  /\ ValidInterval(spec.poll) /\ ValidInterval(spec.detection.every)
  /\ spec.detection.every.d >= spec.poll.d

----------------------------------------------------------------------------
(* The reconciler *)

Detecting(spec) == spec.detection.set /\ spec.detection.enabled

ChangePoll(spec) ==
  IF spec.detection.every.text = "fine" THEN spec.detection.every.d
                                        ELSE DefaultChangePoll

nextRequeueInterval(spec) ==
  IF Detecting(spec) /\ ChangePoll(spec) > 0 /\ ChangePoll(spec) < spec.poll.d
    THEN ChangePoll(spec)
    ELSE spec.poll.d

\* The RequeueAfter values that passes over spec return.  controller-runtime
\* schedules a further run only for a positive one.
Requeues(spec) ==
  IF spec.poll.text # "fine" THEN {0}               \* InvalidSpec
  ELSE {IF spec.template = "unparsable" THEN 0      \* TemplateError
                                        ELSE nextRequeueInterval(spec)}
       \cup {spec.poll.d}                           \* a database error
       \cup (IF Detecting(spec)                     \* a pass that skips
               THEN {ChangePoll(spec)} \cup
                    {ChangePoll(spec) - t : t \in 0..(ChangePoll(spec) - 1)}
               ELSE {})
=============================================================================
