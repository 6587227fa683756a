------------------------------ MODULE MCGuardrail ------------------------------
(* Two calls, a record that may lie in two domain files, and an admin.  The    *)
(* first call is of any kind; the second is an edit, by a client that cannot   *)
(* ask a person, which changes the record under the first.                     *)
EXTENDS Guardrail, TLC

CONSTANTS c1, c2, api, infra

DomainSymmetry == Permutations({api, infra})

AnyAndAnEdit ==
    [c \in Calls |-> IF c = c1 THEN Requests
                     ELSE {r \in Requests : r.op = "edit" /\ r.confirm /\ ~r.elicit}]
UnsetOrLocked == {[lock |-> FALSE, value |-> "none"], [lock |-> TRUE, value |-> "enforce"]}
=============================================================================
