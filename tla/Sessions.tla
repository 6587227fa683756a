-------------------------------- MODULE Sessions --------------------------------
(* The sessions of connected agents: how a request is authenticated (src/src/  *)
(* mulchd/auth.py, main.py), how project tokens come and go (api.py,           *)
(* connect.py, admin/project_tokens.py), and how a change in a domain is told  *)
(* to the sessions that subscribed to it (mcp/subscriptions.py, tier2.py).     *)
(*                                                                             *)
(* A session belongs to one user with one project token.  A request on /mcp is *)
(* authenticated by two reads, each time; an SSE connection is authenticated   *)
(* once, when it opens.  A change is announced by a background task that sends *)
(* to one subscriber after the other, while sessions subscribe, unsubscribe    *)
(* and lose their connections.                                                 *)
EXTENDS Naturals, FiniteSets

CONSTANTS
    Sessions,
    Sse,            \* the sessions that come over /sse, the others over /mcp
    Projects, Domains,
    ProjectOf,      \* the project that a session's token is for
    Settings,       \* how it may start: the rows, and what is done to each session
    MaxLines,       \* bound on the connections of a session, one after another
    MaxUpsets       \* bound on the changes of tokens, users and members

Keys == Projects \X Domains             \* _domain_key
Own(s) == {ProjectOf[s]} \X Domains
Roles == 0..2                           \* not a member, reader, writer or admin
Ops == {"subscribe", "unsubscribe", "listen", "write"}
Upsets == {"stray", "reconnect", "tokens", "members", "users", "revoke"}

ASSUME SessionsAssumption ==
    /\ Sse \subseteq Sessions /\ ProjectOf \in [Sessions -> Projects]
    /\ Domains # {} /\ MaxLines \in Nat \ {0} /\ MaxUpsets \in Nat
    /\ Settings \subseteq [token : [Sessions -> {"none", "active"}],
                           member : [Sessions -> Roles],
                           may : [Sessions -> SUBSET (Ops \cup Upsets)]]

VARIABLES
    may,                    \* what happens to each session in this instance
    token, active, member,  \* the ProjectToken, User and UserMembership rows
    upsets,
    web,                    \* the request of a session's user for a token
    req,                    \* the request a session has under way
    connected,              \* the role that an SSE connection was opened with
    since,                  \* what was held at some time since that was asked
    subs,                   \* subs[k][s]: the line s is registered with, or 0
    listening,              \* the keys a session has a subscriptions/listen for
    line,                   \* line[s]: which connection of s is the current one
    task                    \* the notification task that s has fired

rows == <<may, token, active, member, upsets>>
request == <<req, connected, since>>
registry == <<subs, listening, line>>
vars == <<rows, web, request, registry, task>>

Lines == 0..MaxLines
Nobody == [s \in Sessions |-> 0]
NoKey == CHOOSE k \in Keys : TRUE
NoRequest == [pc |-> "idle", op |-> "none", key |-> NoKey, ctx |-> 0]
NoTask == [stage |-> "none", about |-> NoKey, todo |-> Nobody,
           dead |-> {}, told |-> {}, due |-> {}]
NotHeld == [valid |-> FALSE, best |-> 0]

TypeOK ==
    /\ may \in [Sessions -> SUBSET (Ops \cup Upsets)]
    /\ token \in [Sessions -> {"none", "active", "revoked"}]
    /\ active \in [Sessions -> BOOLEAN] /\ member \in [Sessions -> Roles]
    /\ upsets \in 0..MaxUpsets
    /\ web \in [Sessions -> {"idle", "mintMember", "mint", "revokeMember", "revoke"}]
    /\ req \in [Sessions -> [pc : {"idle", "token", "member", "handle"},
                             op : Ops \cup {"none", "connect"}, key : Keys, ctx : Roles]]
    /\ connected \in [Sessions -> Roles]
    /\ since \in [Sessions -> [valid : BOOLEAN, best : Roles]]
    /\ subs \in [Keys -> [Sessions -> Lines]]
    /\ listening \in [Sessions -> SUBSET Keys] /\ line \in [Sessions -> Lines \ {0}]
    /\ task \in [Sessions -> [stage : {"none", "scheduled", "sending"}, about : Keys,
                              todo : [Sessions -> Lines], dead : SUBSET Sessions,
                              told : SUBSET Sessions, due : SUBSET Sessions]]

Init ==
    /\ \E start \in Settings :
        token = start.token /\ member = start.member /\ may = start.may
    /\ active = [s \in Sessions |-> TRUE]
    /\ upsets = 0 /\ web = [s \in Sessions |-> "idle"]
    /\ req = [s \in Sessions |-> NoRequest]
    /\ connected = [s \in Sessions |-> 0] /\ since = [s \in Sessions |-> NotHeld]
    /\ subs = [k \in Keys |-> Nobody] /\ listening = [s \in Sessions |-> {}]
    /\ line = [s \in Sessions |-> 1] /\ task = [s \in Sessions |-> NoTask]

Higher(a, b) == IF a < b THEN b ELSE a
Valid(s) == token[s] = "active" /\ active[s]

-----------------------------------------------------------------------------
(* The rows, and who changes them.                                             *)

(* Whoever is being served held what it holds after this change, too.          *)
Noted == since' = [s \in Sessions |->
            IF req[s].pc = "idle" /\ connected[s] = 0 THEN NotHeld ELSE
            [valid |-> since[s].valid \/ (token'[s] = "active" /\ active'[s]),
             best |-> Higher(since[s].best, member'[s])]]

Upset(s, what) ==
    /\ what \in may[s] /\ upsets < MaxUpsets /\ upsets' = upsets + 1
    /\ Noted /\ UNCHANGED <<may, req, connected, registry, task>>

AddMember(s, r) ==
    /\ member[s] = 0 /\ member' = [member EXCEPT ![s] = r]
    /\ UNCHANGED <<token, active, web>> /\ Upset(s, "members")

RemoveMember(s) ==
    /\ member[s] # 0 /\ member' = [member EXCEPT ![s] = 0]
    /\ UNCHANGED <<token, active, web>> /\ Upset(s, "members")

SwitchUser(s) ==
    /\ active' = [active EXCEPT ![s] = ~@]
    /\ UNCHANGED <<token, member, web>> /\ Upset(s, "users")

(* /admin/project-tokens/{id}/revoke                                           *)
AdminRevoke(s) ==
    /\ token[s] = "active" /\ token' = [token EXCEPT ![s] = "revoked"]
    /\ UNCHANGED <<active, member, web>> /\ Upset(s, "revoke")

(* The user asks for a token, or to revoke one, and is checked first: active,  *)
(* then a member of the project (api.py, and connect.py the same).             *)
Ask(s, step) ==
    /\ "tokens" \in may[s] /\ web[s] = "idle" /\ active[s]
    /\ web' = [web EXCEPT ![s] = step]
    /\ UNCHANGED <<rows, request, registry, task>>

CheckMember(s, from, to) ==
    /\ web[s] = from
    /\ web' = [web EXCEPT ![s] = IF member[s] # 0 THEN to ELSE "idle"]
    /\ UNCHANGED <<rows, request, registry, task>>

(* A session that had no token gets one; one that had is another session then. *)
MintToken(s) ==
    /\ web[s] = "mint" /\ web' = [web EXCEPT ![s] = "idle"]
    /\ token' = [token EXCEPT ![s] = IF @ = "none" THEN "active" ELSE @]
    /\ UNCHANGED <<active, member>> /\ Upset(s, "tokens")

RevokeToken(s) ==
    /\ web[s] = "revoke" /\ web' = [web EXCEPT ![s] = "idle"]
    /\ token' = [token EXCEPT ![s] = IF @ = "active" THEN "revoked" ELSE @]
    /\ UNCHANGED <<active, member>> /\ Upset(s, "tokens")

-----------------------------------------------------------------------------
(* mcp_endpoint and sse_endpoint: the request and its authentication.          *)

Arrive(s, what, k) ==
    /\ req[s].pc = "idle"
    /\ req' = [req EXCEPT ![s] = [pc |-> "token", op |-> what, key |-> k, ctx |-> 0]]
    /\ since' = [since EXCEPT ![s] = [valid |-> Valid(s), best |-> member[s]]]
    /\ UNCHANGED <<rows, web, connected, registry, task>>

Connect(s) == s \in Sse /\ connected[s] = 0 /\ Arrive(s, "connect", NoKey)

Sends(s, what, k) ==
    /\ what \in may[s]
    /\ k \in Own(s) \/ (what # "write" /\ "stray" \in may[s])
    /\ what = "write" => task[s] = NoTask

Send(s, what, k) == s \notin Sse /\ Sends(s, what, k) /\ Arrive(s, what, k)

(* A message of an open SSE connection: it is served as what that was opened   *)
(* with.                                                                       *)
Message(s, what, k) ==
    /\ req[s].pc = "idle" /\ connected[s] # 0 /\ Sends(s, what, k)
    /\ req' = [req EXCEPT ![s] =
                [pc |-> "handle", op |-> what, key |-> k, ctx |-> connected[s]]]
    /\ UNCHANGED <<rows, web, connected, since, registry, task>>

(* The request is over, and refused if it did not come to its handler.         *)
Done(s) ==
    /\ req' = [req EXCEPT ![s] = NoRequest]
    /\ since' = [since EXCEPT ![s] = IF connected'[s] = 0 THEN NotHeld ELSE @]

(* authenticate_project_token: the token and its user, then the membership.    *)
ReadToken(s) ==
    /\ req[s].pc = "token" /\ UNCHANGED connected
    /\ IF Valid(s) THEN req' = [req EXCEPT ![s].pc = "member"] /\ UNCHANGED since
       ELSE Done(s)
    /\ UNCHANGED <<rows, web, registry, task>>

\* Mutant of Admit: who is no member any more is served as a reader.
AdmitLenient(s) == Higher(member[s], 1)

Admit(s) == member[s]

ReadMember(s) ==
    /\ req[s].pc = "member"
    /\ IF Admit(s) = 0 THEN UNCHANGED connected /\ Done(s)
       ELSE IF req[s].op = "connect"
       THEN connected' = [connected EXCEPT ![s] = Admit(s)] /\ Done(s)
       ELSE /\ req' = [req EXCEPT ![s].pc = "handle", ![s].ctx = Admit(s)]
            /\ UNCHANGED <<connected, since>>
    /\ UNCHANGED <<rows, web, registry, task>>

-----------------------------------------------------------------------------
(* The handlers.                                                               *)

Handle(s, what) ==
    /\ req[s].pc = "handle" /\ req[s].op = what
    /\ UNCHANGED <<rows, web, connected, line>> /\ Done(s)

\* Mutant of Named: the domain is taken from the URI, whatever project it names.
NamedAnywhere(s) == TRUE

(* _parse_domain_uri: only a URI of the session's own project names a domain.  *)
Named(s) == req[s].key \in Own(s)

(* Without a session id, as on an SSE connection, nothing is registered.       *)
Registered(s, l) ==
    subs' = IF Named(s) /\ s \notin Sse THEN [subs EXCEPT ![req[s].key][s] = l] ELSE subs

Subscribe(s) ==
    /\ Handle(s, "subscribe") /\ Registered(s, line[s])
    /\ UNCHANGED <<listening, task>>

(* Nobody owes the session what it no longer wants.                            *)
Unsubscribe(s) ==
    /\ Handle(s, "unsubscribe") /\ Registered(s, 0)
    /\ task' = [t \in Sessions |-> IF task[t].about # req[s].key THEN task[t]
                                   ELSE [task[t] EXCEPT !.due = @ \ {s}]]
    /\ UNCHANGED listening

(* gate_subscriptions_listen refuses a request that names another project.     *)
Listen(s) ==
    /\ Handle(s, "listen")
    /\ listening' = IF Named(s) THEN [listening EXCEPT ![s] = @ \cup {req[s].key}]
                    ELSE listening
    /\ UNCHANGED <<subs, task>>

(* A write, edit, delete or move: a reader is refused, and who may write fires *)
(* the notification when the change is done.                                   *)
Write(s) ==
    /\ Handle(s, "write")
    /\ task' = IF req[s].ctx # 2 THEN task
               ELSE [task EXCEPT ![s].stage = "scheduled", ![s].about = req[s].key,
                        ![s].due = {t \in Sessions \ {s} : subs[req[s].key][t] = line[t]}]
    /\ UNCHANGED <<subs, listening>>

-----------------------------------------------------------------------------
(* _notify_domain                                                              *)

(* subscribers_for: a copy of who is registered now, without the actor.        *)
StartTask(s) ==
    /\ task[s].stage = "scheduled"
    /\ task' = [task EXCEPT ![s].stage = "sending",
                            ![s].todo = [subs[task[s].about] EXCEPT ![s] = 0]]
    /\ UNCHANGED <<rows, web, request, registry>>

\* Mutant of Found: the first dead session ends the round.
FoundLast(s, t) == [task[s] EXCEPT !.dead = @ \cup {t}, !.todo = Nobody]

(* A send over a connection that is gone fails, and the task goes on.          *)
Found(s, t) == [task[s] EXCEPT !.dead = @ \cup {t}, !.todo[t] = 0]

Reached(s, t) == [task[s] EXCEPT !.told = @ \cup {t}, !.todo[t] = 0]

Tell(s, t) ==
    /\ task[s].stage = "sending" /\ task[s].todo[t] # 0
    /\ task' = [task EXCEPT ![s] =
            IF task[s].todo[t] # line[t] THEN Found(s, t) ELSE Reached(s, t)]
    /\ UNCHANGED <<rows, web, request, registry>>

Told(s) == task[s].stage = "sending" /\ task[s].todo = Nobody

(* The dead sessions are unregistered from everything, also from what they     *)
(* registered for over a new connection since.                                 *)
EndTask(s) ==
    /\ Told(s)
    /\ subs' = [k \in Keys |-> [t \in Sessions |->
                    IF t \in task[s].dead THEN 0 ELSE subs[k][t]]]
    /\ task' = [t \in Sessions |-> IF t = s THEN NoTask
                    ELSE [task[t] EXCEPT !.due = @ \ task[s].dead]]
    /\ UNCHANGED <<rows, web, request, listening, line>>

(* A connection breaks, or its session idles out; the agent comes back with    *)
(* the same session id over another.                                           *)
Reconnect(s) ==
    /\ "reconnect" \in may[s] /\ line[s] < MaxLines
    /\ line' = [line EXCEPT ![s] = @ + 1]
    /\ connected' = [connected EXCEPT ![s] = 0] /\ Done(s)
    /\ listening' = [listening EXCEPT ![s] = {}]
    /\ task' = [t \in Sessions |-> [task[t] EXCEPT !.due = @ \ {s}]]
    /\ UNCHANGED <<rows, web, subs>>

-----------------------------------------------------------------------------
Request(s) ==
    \/ Connect(s) \/ ReadToken(s) \/ ReadMember(s)
    \/ \E what \in Ops, k \in Keys : Send(s, what, k) \/ Message(s, what, k)
    \/ Subscribe(s) \/ Unsubscribe(s) \/ Listen(s) \/ Write(s)

TokenRequest(s) ==
    \/ Ask(s, "mintMember") \/ CheckMember(s, "mintMember", "mint") \/ MintToken(s)
    \/ Ask(s, "revokeMember") \/ CheckMember(s, "revokeMember", "revoke") \/ RevokeToken(s)

Change(s) ==
    \/ RemoveMember(s) \/ SwitchUser(s) \/ AdminRevoke(s)
    \/ \E r \in Roles \ {0} : AddMember(s, r)

Notify(s) == StartTask(s) \/ EndTask(s) \/ \E t \in Sessions : Tell(s, t)

Next == \E s \in Sessions :
    Request(s) \/ TokenRequest(s) \/ Change(s) \/ Notify(s) \/ Reconnect(s)

Spec == Init /\ [][Next]_vars

-----------------------------------------------------------------------------
(* A request is served with no more than its user held at some time since its  *)
(* authentication began: a valid token of an active user, and a membership     *)
(* with at least the role it is served with.  On /mcp that is since the        *)
(* request came, so what was taken away before is not served; on /sse since    *)
(* the connection was opened (authenticate_project_token).                     *)
NeverMoreThanHeld == \A s \in Sessions :
    /\ req[s].pc = "handle" =>
        since[s].valid /\ req[s].ctx # 0 /\ req[s].ctx <= since[s].best
    /\ connected[s] # 0 => since[s].valid /\ connected[s] <= since[s].best

(* Nobody is registered for, listens to or is told of a domain of a project    *)
(* other than the one of its token, also one of the same name, and nobody is   *)
(* told of its own change.                                                     *)
OwnProjectOnly == \A s \in Sessions :
    /\ \A k \in Keys : subs[k][s] # 0 => k \in Own(s)
    /\ listening[s] \subseteq Own(s)
    /\ task[s].told \subseteq {t \in Sessions \ {s} : ProjectOf[t] = ProjectOf[s]}

(* A session that was registered over its current connection when a change was *)
(* made, and stayed so until the notification was sent, has been told,         *)
(* whichever other sessions were found dead before it (_notify_domain).        *)
SteadySubscribersAreTold == \A s \in Sessions : Told(s) => task[s].due \subseteq task[s].told
=============================================================================
