------------------------------ MODULE MCSessions ------------------------------
(* Two settings.  Notifications: three sessions of a project, of which one     *)
(* writes, one comes and goes, and one stays and also names a domain of the    *)
(* same name in the other project.  Access: a session on /mcp, and one of the  *)
(* other project on /sse, while tokens, members and users are changed.         *)
EXTENDS Sessions

CONSTANTS a, b, c, d

Project == [s \in Sessions |-> IF s = d THEN "wiki" ELSE "notes"]
Nothing == [s \in Sessions |-> {}]

Notifications ==
    [token |-> [s \in Sessions |-> "active"],
     member |-> [s \in Sessions |-> IF s = a THEN 2 ELSE 1],
     may |-> [s \in Sessions |->
                CASE s = a -> {"write", "subscribe"}
                  [] s = b -> {"subscribe", "unsubscribe", "reconnect"}
                  [] s = c -> {"subscribe", "stray"}
                  [] OTHER -> {}]]

Access ==
    {[token |-> [Nothing EXCEPT ![a] = t, ![b] = "none", ![c] = "none", ![d] = "active"],
      member |-> [s \in Sessions |-> IF s = a THEN m ELSE IF s = d THEN n ELSE 0],
      may |-> [Nothing EXCEPT
        ![a] = {"write", "tokens", "members", "users"},
        ![d] = {"listen", "write", "members", "revoke", "reconnect", "stray"}]]
     : t \in {"none", "active"}, m \in {0, 2}, n \in {1, 2}}

Both == {Notifications} \cup Access
=============================================================================
