---------------------------- MODULE MCMigrations ----------------------------
(***************************************************************************)
(* Migrations for TLC: three init containers of a rollout, or an operator  *)
(* alone with a database of his own.                                       *)
(***************************************************************************)
EXTENDS Migrations

CONSTANTS c1, c2, c3, o

\* A rollout on a database past version 5, or an operator from the beginning.
RolloutOrOperator ==
  [version : 6..9, runs : {{c1, c2, c3}}] \cup {[version |-> 0, runs |-> {o}]}

\* The first rollout.
FreshDatabase == {[version |-> 0, runs |-> {c1, c2}]}

\* The instances without that race are ones the proofs are about.
ASSUME InstanceAssumption == Cases # FreshDatabase => RolloutOrAlone

=============================================================================
