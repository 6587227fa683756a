---------------------------- MODULE MCAdminGrants ----------------------------
(* AdminGrants with four overlapping requests about three users.           *)
EXTENDS AdminGrants, TLC

RequestSymmetry == Permutations(Requests)
=============================================================================
