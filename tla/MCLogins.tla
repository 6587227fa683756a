------------------------------ MODULE MCLogins -------------------------------
(* Two settings.  Persons: callbacks of two persons, the email of the first   *)
(* one's identity being changed to that of the second account, to which an    *)
(* account may be there already.  Members: three accounts that log in and     *)
(* open the link, while the link and the members change.                      *)
EXTENDS Logins, TLC

EmailChanges == {<<"gh-ann", "ann">>, <<"gh-ann", "bob">>, <<"oidc-bob", "bob">>}

Numbered == [u \in Users |-> CASE u = "ann" -> 1 [] u = "bob" -> 2 [] OTHER -> 3]

Persons ==
    {[accounts |-> x, name |-> Numbered,
      may |-> {"callback", "fail", "create", "switch", "unlink"}] : x \in {{}, {"ann"}}}
Members ==
    [accounts |-> Users, name |-> Numbered, may |-> {"token", "open", "link"}]
Both == Persons \cup {Members}

RequestSymmetry == Permutations(Requests)
=============================================================================
