---------------------------- MODULE MCModelCache ----------------------------
(***************************************************************************)
(* An instance of ModelCache for TLC.  The keys are chosen so that a       *)
(* lookup without a version is ambiguous.                                  *)
(***************************************************************************)
EXTENDS ModelCache

CONSTANTS none, v1, m, n, cpu

\* Two versions of one model and another model.
MCKeys == {[id |-> m, version |-> none, backend |-> cpu],
           [id |-> m, version |-> v1, backend |-> cpu],
           [id |-> n, version |-> v1, backend |-> cpu]}

=============================================================================
