---------------------------- MODULE MCOAuthServer ----------------------------
(* OAuthServer with four overlapping requests about two projects: the user   *)
(* is a writer in both.                                                      *)
EXTENDS OAuthServer, TLC

WriterInBoth == [p \in Projects |-> 2]

RequestSymmetry == Permutations(Requests)
=============================================================================
