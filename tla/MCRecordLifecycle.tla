------------------------ MODULE MCRecordLifecycle ------------------------
(* RecordLifecycle on small instances: two or three concurrent calls, two   *)
(* domains, one or two ids.                                                 *)
EXTENDS RecordLifecycle, TLC

Empty == [d \in Domains |-> {}]

\* One record, in one domain.
OneSeed == [d \in Domains |-> IF d = "api" THEN {"r1"} ELSE {}]

CallSymmetry == Permutations(Calls)
=============================================================================
