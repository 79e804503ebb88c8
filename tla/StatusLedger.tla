----------------------------- MODULE StatusLedger -----------------------------
(***************************************************************************)
(* What writing the children's status back promises.  The database is      *)
(* never ahead of a child and never put back to an older version of it,    *)
(* however late an update runs and whatever changes meanwhile; and the     *)
(* CR's status remembers only what the database was told.  It may forget:  *)
(* a status write may be lost, or may carry an older status, and then a    *)
(* version is reported once more.                                          *)
(***************************************************************************)
EXTENDS Naturals

CONSTANT Keys            \* the children

VARIABLES version,       \* the version of each child, 0 before the first
          reported,      \* the version the database was told last
          remembered     \* Status.ResourceVersions of the stored CR

ledger == <<version, reported, remembered>>

Init ==
  /\ version \in [Keys -> Nat]
  /\ reported = [k \in Keys |-> 0]
  /\ remembered = [k \in Keys |-> 0]

\* Children are created, updated and deleted, by whomever.
Change ==
  /\ version' \in [Keys -> Nat]
  /\ \A k \in Keys : version'[k] >= version[k]
  /\ UNCHANGED <<reported, remembered>>

\* Status updates take effect, with a version that is no older than the last
\* one reported; the stored status learns of them then, later, or never.
Report ==
  /\ reported' \in [Keys -> Nat] /\ remembered' \in [Keys -> Nat]
  /\ \A k \in Keys : /\ reported[k] <= reported'[k] /\ reported'[k] <= version[k]
                     /\ remembered'[k] <= reported'[k]
  /\ UNCHANGED version

Next == Change \/ Report

Spec == Init /\ [][Next]_ledger
=============================================================================
