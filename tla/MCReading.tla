------------------------------- MODULE MCReading -------------------------------
(* Three records in two domains; a limit at each of its edges.                 *)
EXTENDS Reading

EdgeLimits == {-1, 0, 1, 2}
=============================================================================
