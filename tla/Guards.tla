------------------------------- MODULE Guards -------------------------------
(***************************************************************************)
(* The guard framework: results of guards and the ways the source has of   *)
(* composing them.  A result is Ok or the name of an error; a guard is an  *)
(* operator whose value is a result.                                       *)
(***************************************************************************)
EXTENDS Naturals, Sequences

CONSTANT MAX_GUARDS  \* what GuardBuilder holds: 16

Ok == "Ok"

\* ValidationResult::from_condition
from_condition(passes, error) == IF passes THEN Ok ELSE error

\* execute_guards, run_validators and validate_all: guards run in order and the
\* first error is the answer.
execute_guards(results) ==
    IF \A i \in DOMAIN results : results[i] = Ok THEN Ok
    ELSE results[CHOOSE i \in DOMAIN results :
                     results[i] # Ok /\ \A j \in 1 .. i - 1 : results[j] = Ok]

sequence(first, second) == IF first = Ok THEN second ELSE first

\* GuardBuilder takes results of guards that have already run; add panics at one
\* too many.
GuardBuilder_execute(results) ==
    IF Len(results) <= MAX_GUARDS THEN execute_guards(results) ELSE "panic"

\* GuardComposition of guards/compose.rs remembers that a guard failed, not how.
GuardComposition_execute(results) ==
    from_condition(\A i \in DOMAIN results : results[i] = Ok, "Unauthorized")
=============================================================================
