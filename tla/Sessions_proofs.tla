---------------------------- MODULE Sessions_proofs ----------------------------
(* Proofs about Sessions for any number of sessions, projects and domains,     *)
(* whichever rows change and whichever connections break.                      *)
EXTENDS Sessions, TLAPS

-----------------------------------------------------------------------------
(* Type correctness *)

Requests == [pc : {"idle", "token", "member", "handle"},
             op : Ops \cup {"none", "connect"}, key : Keys, ctx : Roles]
Held == [valid : BOOLEAN, best : Roles]
Tasks == [stage : {"none", "scheduled", "sending"}, about : Keys,
          todo : [Sessions -> Lines], dead : SUBSET Sessions,
          told : SUBSET Sessions, due : SUBSET Sessions]

LEMMA KeyExists == ASSUME NEW s \in Sessions PROVE NoKey \in Keys
<1>1. ProjectOf[s] \in Projects /\ Domains # {}
  BY SessionsAssumption
<1>2. PICK d \in Domains : TRUE
  BY <1>1
<1>3. <<ProjectOf[s], d>> \in Keys
  BY <1>1 DEF Keys
<1> QED
  BY <1>3 DEF NoKey

LEMMA Constants ==
    ASSUME NEW s \in Sessions
    PROVE  NoRequest \in Requests /\ NoTask \in Tasks /\ NotHeld \in Held
<1>1. 0 \in Lines /\ 0 \in Roles
  BY SessionsAssumption DEF Lines, Roles
<1>2. Nobody \in [Sessions -> Lines]
  BY <1>1 DEF Nobody
<1> QED
  BY <1>1, <1>2, KeyExists DEF NoRequest, NoTask, NotHeld, Requests, Tasks, Held

(* A request that is over leaves the types of the request variables.           *)
LEMMA DoneType ==
    ASSUME TypeOK, NEW s \in Sessions, Done(s)
    PROVE  req' \in [Sessions -> Requests] /\ since' \in [Sessions -> Held]
BY Constants DEF TypeOK, Done, Requests, Held

(* So does a change of the rows.                                               *)
LEMMA NotedType ==
    ASSUME TypeOK, Noted, member' \in [Sessions -> Roles]
    PROVE  since' \in [Sessions -> Held]
<1>1. \A a, b \in Roles : Higher(a, b) \in Roles
  BY DEF Higher
<1>2. ASSUME NEW s \in Sessions
      PROVE [valid |-> since[s].valid \/ (token'[s] = "active" /\ active'[s]),
             best |-> Higher(since[s].best, member'[s])] \in Held
  BY <1>1 DEF TypeOK, Held
<1> QED
  BY <1>2, Constants DEF Noted

(* Changing one field of a task, of several tasks, or of a request keeps its    *)
(* type.                                                                       *)
LEMMA TaskFields ==
    ASSUME NEW x \in Tasks
    PROVE  /\ x.about \in Keys /\ x.todo \in [Sessions -> Lines]
           /\ x.told \subseteq Sessions /\ x.dead \subseteq Sessions /\ x.due \subseteq Sessions
           /\ \A S \in SUBSET Sessions : [x EXCEPT !.due = S] \in Tasks
           /\ \A f \in [Sessions -> Lines] :
                [x EXCEPT !.stage = "sending", !.todo = f] \in Tasks
           /\ \A k \in Keys, S \in SUBSET Sessions :
                [x EXCEPT !.stage = "scheduled", !.about = k, !.due = S] \in Tasks
BY DEF Tasks

LEMMA TaskTold ==
    ASSUME NEW x \in Tasks, NEW t \in Sessions, NEW S \in SUBSET Sessions, 0 \in Lines
    PROVE  /\ [x EXCEPT !.told = S, !.todo[t] = 0] \in Tasks
           /\ [x EXCEPT !.dead = S, !.todo[t] = 0] \in Tasks
<1>1. [x.todo EXCEPT ![t] = 0] \in [Sessions -> Lines]
  BY TaskFields
<1>2. \A f \in [Sessions -> Lines] :
        [x EXCEPT !.told = S, !.todo = f] \in Tasks /\ [x EXCEPT !.dead = S, !.todo = f] \in Tasks
  BY DEF Tasks
<1> QED
  BY <1>1, <1>2, Zenon

LEMMA RequestFields ==
    ASSUME NEW x \in Requests
    PROVE  /\ [x EXCEPT !.pc = "member"] \in Requests
           /\ \A r \in Roles : [x EXCEPT !.pc = "handle", !.ctx = r] \in Requests
BY DEF Requests

LEMMA TypeStep == TypeOK /\ [Next]_vars => TypeOK'
<1> SUFFICES ASSUME TypeOK, [Next]_vars PROVE TypeOK'
  OBVIOUS
<1> USE DEF rows, request, registry
<1>a. /\ may \in [Sessions -> SUBSET (Ops \cup Upsets)]
      /\ token \in [Sessions -> {"none", "active", "revoked"}]
      /\ active \in [Sessions -> BOOLEAN] /\ member \in [Sessions -> Roles]
      /\ upsets \in 0..MaxUpsets
      /\ web \in [Sessions -> {"idle", "mintMember", "mint", "revokeMember", "revoke"}]
      /\ req \in [Sessions -> Requests]
      /\ connected \in [Sessions -> Roles] /\ since \in [Sessions -> Held]
      /\ subs \in [Keys -> [Sessions -> Lines]]
      /\ listening \in [Sessions -> SUBSET Keys] /\ line \in [Sessions -> Lines \ {0}]
      /\ task \in [Sessions -> Tasks]
  BY DEF TypeOK, Requests, Held, Tasks
<1>b. ASSUME NEW s \in Sessions, NEW what, Upset(s, what),
             token' \in [Sessions -> {"none", "active", "revoked"}],
             active' \in [Sessions -> BOOLEAN], member' \in [Sessions -> Roles],
             web' \in [Sessions -> {"idle", "mintMember", "mint", "revokeMember", "revoke"}]
      PROVE  TypeOK'
  <2>1. since' \in [Sessions -> Held]
    BY <1>b, NotedType DEF Upset
  <2>2. upsets' \in 0..MaxUpsets
    BY <1>a, <1>b, SessionsAssumption DEF Upset
  <2> QED
    BY <1>a, <1>b, <2>1, <2>2 DEF Upset, TypeOK, Requests, Held, Tasks
<1>1. ASSUME NEW s \in Sessions, NEW r \in Roles \ {0}, AddMember(s, r) PROVE TypeOK'
  BY <1>1, <1>a, <1>b DEF AddMember
<1>2. ASSUME NEW s \in Sessions, RemoveMember(s) PROVE TypeOK'
  BY <1>2, <1>a, <1>b DEF RemoveMember, Roles
<1>3. ASSUME NEW s \in Sessions, SwitchUser(s) PROVE TypeOK'
  BY <1>3, <1>a, <1>b DEF SwitchUser
<1>4. ASSUME NEW s \in Sessions, AdminRevoke(s) PROVE TypeOK'
  BY <1>4, <1>a, <1>b DEF AdminRevoke
<1>5. ASSUME NEW s \in Sessions, MintToken(s) PROVE TypeOK'
  BY <1>5, <1>a, <1>b DEF MintToken
<1>6. ASSUME NEW s \in Sessions, RevokeToken(s) PROVE TypeOK'
  BY <1>6, <1>a, <1>b DEF RevokeToken
<1>7. ASSUME NEW s \in Sessions,
             NEW step \in {"mintMember", "revokeMember"}, Ask(s, step)
      PROVE  TypeOK'
  BY <1>7 DEF Ask, TypeOK
<1>8. ASSUME NEW s \in Sessions, NEW from, NEW to \in {"mint", "revoke"},
             CheckMember(s, from, to)
      PROVE  TypeOK'
  BY <1>8 DEF CheckMember, TypeOK
<1>c. ASSUME UNCHANGED <<rows, web, registry, task>>, req' \in [Sessions -> Requests],
             connected' \in [Sessions -> Roles], since' \in [Sessions -> Held]
      PROVE  TypeOK'
  BY <1>a, <1>c DEF TypeOK, Requests, Held, Tasks
<1>9. ASSUME NEW s \in Sessions, NEW what \in Ops \cup {"connect"}, NEW k \in Keys,
             Arrive(s, what, k)
      PROVE  TypeOK'
  <2>1. [pc |-> "token", op |-> what, key |-> k, ctx |-> 0] \in Requests
    BY DEF Requests, Roles
  <2>2. [valid |-> Valid(s), best |-> member[s]] \in Held
    BY <1>a DEF Held, Valid
  <2> QED
    BY <1>9, <1>a, <1>c, <2>1, <2>2 DEF Arrive
<1>10. ASSUME NEW s \in Sessions, NEW what \in Ops, NEW k \in Keys, Message(s, what, k)
       PROVE  TypeOK'
  <2>1. [pc |-> "handle", op |-> what, key |-> k, ctx |-> connected[s]] \in Requests
    BY <1>a DEF Requests
  <2> QED
    BY <1>10, <1>a, <1>c, <2>1 DEF Message
<1>11. ASSUME NEW s \in Sessions, ReadToken(s) PROVE TypeOK'
  <2>1. [req EXCEPT ![s].pc = "member"] \in [Sessions -> Requests]
    BY <1>a DEF Requests
  <2> QED
    BY <1>11, <1>a, <1>c, <2>1, DoneType DEF ReadToken
<1>12. ASSUME NEW s \in Sessions, ReadMember(s) PROVE TypeOK'
  <2>1. [req EXCEPT ![s].pc = "handle", ![s].ctx = Admit(s)] \in [Sessions -> Requests]
    BY <1>a, RequestFields DEF Admit
  <2>2. [connected EXCEPT ![s] = Admit(s)] \in [Sessions -> Roles]
    BY <1>a DEF Admit
  <2> QED
    BY <1>12, <1>a, <1>c, <2>1, <2>2, DoneType DEF ReadMember
<1>d. ASSUME NEW s \in Sessions, UNCHANGED <<rows, web>>, Done(s),
             connected' \in [Sessions -> Roles], line' \in [Sessions -> Lines \ {0}],
             subs' \in [Keys -> [Sessions -> Lines]],
             listening' \in [Sessions -> SUBSET Keys], task' \in [Sessions -> Tasks]
      PROVE  TypeOK'
  BY <1>a, <1>d, DoneType DEF TypeOK, Requests, Held, Tasks
<1>e. \A s \in Sessions : req[s].key \in Keys
  BY <1>a DEF Requests
<1>f. ASSUME NEW s \in Sessions, NEW l \in Lines, Registered(s, l)
      PROVE  subs' \in [Keys -> [Sessions -> Lines]]
  BY <1>a, <1>e, <1>f DEF Registered
<1>g. 0 \in Lines /\ \A t \in Sessions : line[t] \in Lines
  BY <1>a, SessionsAssumption DEF Lines
<1>13. ASSUME NEW s \in Sessions, Subscribe(s) PROVE TypeOK'
  BY <1>13, <1>a, <1>d, <1>f, <1>g DEF Subscribe, Handle
<1>14. ASSUME NEW s \in Sessions, Unsubscribe(s) PROVE TypeOK'
  <2>1. \A t \in Sessions : [task[t] EXCEPT !.due = @ \ {s}] \in Tasks
    BY <1>a, TaskFields
  <2>2. task' \in [Sessions -> Tasks]
    BY <1>14, <1>a, <2>1 DEF Unsubscribe
  <2> QED
    BY <1>14, <1>a, <1>d, <1>f, <1>g, <2>2 DEF Unsubscribe, Handle
<1>15. ASSUME NEW s \in Sessions, Listen(s) PROVE TypeOK'
  BY <1>15, <1>a, <1>d, <1>e DEF Listen, Handle
<1>16. ASSUME NEW s \in Sessions, Write(s) PROVE TypeOK'
  <2>1. [task EXCEPT ![s].stage = "scheduled", ![s].about = req[s].key,
                     ![s].due = {t \in Sessions \ {s} : subs[req[s].key][t] = line[t]}]
          \in [Sessions -> Tasks]
    BY <1>a, <1>e, TaskFields
  <2> QED
    BY <1>16, <1>a, <1>d, <2>1 DEF Write, Handle
<1>h. ASSUME UNCHANGED <<rows, web, request, listening, line>>,
             subs' \in [Keys -> [Sessions -> Lines]], task' \in [Sessions -> Tasks]
      PROVE  TypeOK'
  BY <1>a, <1>h DEF TypeOK, Requests, Held, Tasks
<1>17. ASSUME NEW s \in Sessions, StartTask(s) PROVE TypeOK'
  <2>1. task[s].about \in Keys /\ [subs[task[s].about] EXCEPT ![s] = 0] \in [Sessions -> Lines]
    BY <1>a, <1>g, TaskFields
  <2>2. task' \in [Sessions -> Tasks]
    BY <1>17, <1>a, <2>1, TaskFields DEF StartTask
  <2> QED
    BY <1>17, <1>a, <1>h, <2>2 DEF StartTask
<1>18. ASSUME NEW s \in Sessions, NEW t \in Sessions, Tell(s, t) PROVE TypeOK'
  <2>1. task[s].told \cup {t} \in SUBSET Sessions /\ task[s].dead \cup {t} \in SUBSET Sessions
    BY <1>a, TaskFields
  <2>2. Found(s, t) \in Tasks /\ Reached(s, t) \in Tasks
    BY <1>a, <1>g, <2>1, TaskTold DEF Found, Reached
  <2>3. task' \in [Sessions -> Tasks]
    BY <1>18, <1>a, <2>2 DEF Tell
  <2> QED
    BY <1>18, <1>a, <1>h, <2>3 DEF Tell
<1>19. ASSUME NEW s \in Sessions, EndTask(s) PROVE TypeOK'
  <2>1. \A t \in Sessions : [task[t] EXCEPT !.due = @ \ task[s].dead] \in Tasks
    BY <1>a, TaskFields
  <2>2. task' \in [Sessions -> Tasks]
    BY <1>19, <2>1, Constants DEF EndTask
  <2>3. subs' \in [Keys -> [Sessions -> Lines]]
    BY <1>19, <1>a, <1>g DEF EndTask
  <2> QED
    BY <1>19, <1>h, <2>2, <2>3 DEF EndTask
<1>20. ASSUME NEW s \in Sessions, Reconnect(s) PROVE TypeOK'
  <2>1. line' \in [Sessions -> Lines \ {0}]
    BY <1>20, <1>a, SessionsAssumption DEF Reconnect, Lines
  <2>2. \A t \in Sessions : [task[t] EXCEPT !.due = @ \ {s}] \in Tasks
    BY <1>a, TaskFields
  <2>3. task' \in [Sessions -> Tasks]
    BY <1>20, <2>2 DEF Reconnect
  <2>4. connected' \in [Sessions -> Roles] /\ listening' \in [Sessions -> SUBSET Keys]
    BY <1>20, <1>a DEF Reconnect, Roles
  <2> QED
    BY <1>20, <1>a, <1>d, <2>1, <2>3, <2>4 DEF Reconnect
<1>21. ASSUME UNCHANGED vars PROVE TypeOK'
  BY <1>21 DEF vars, TypeOK
<1>22. ASSUME NEW s \in Sessions, Request(s) PROVE TypeOK'
  <2>1. CASE Connect(s)
    BY <2>1, <1>9, KeyExists DEF Connect
  <2>2. ASSUME NEW what \in Ops, NEW k \in Keys, Send(s, what, k) PROVE TypeOK'
    BY <2>2, <1>9 DEF Send
  <2> QED
    BY <1>22, <2>1, <2>2, <1>10, <1>11, <1>12, <1>13, <1>14, <1>15, <1>16 DEF Request
<1> QED
  BY <1>1, <1>2, <1>3, <1>4, <1>5, <1>6, <1>7, <1>8, <1>17, <1>18, <1>19, <1>20,
     <1>21, <1>22 DEF Next, TokenRequest, Change, Notify

(* Every reachable state has the declared types.                               *)
THEOREM TypeCorrect == Spec => []TypeOK
<1>1. Init => TypeOK
  <2> SUFFICES ASSUME Init PROVE TypeOK
    OBVIOUS
  <2>1. PICK start \in Settings :
          token = start.token /\ member = start.member /\ may = start.may
    BY DEF Init
  <2>2. /\ token \in [Sessions -> {"none", "active", "revoked"}]
        /\ member \in [Sessions -> Roles] /\ may \in [Sessions -> SUBSET (Ops \cup Upsets)]
    BY <2>1, SessionsAssumption
  <2>3. /\ req \in [Sessions -> Requests] /\ since \in [Sessions -> Held]
        /\ task \in [Sessions -> Tasks]
    BY Constants DEF Init
  <2>4. 0 \in Lines /\ 1 \in Lines \ {0} /\ 0 \in Roles /\ 0 \in 0..MaxUpsets
    BY SessionsAssumption DEF Lines, Roles
  <2> QED
    BY <2>2, <2>3, <2>4 DEF Init, TypeOK, Requests, Held, Tasks, Nobody
<1> QED
  BY <1>1, TypeStep, PTL DEF Spec

-----------------------------------------------------------------------------
(* Nobody is served more than was held                                         *)

(* The inductive invariant, session by session: what is noted covers what is   *)
(* held now as long as the session is served, and it was a valid token once    *)
(* the token was read.  Only sessions on /sse keep a connection, and while     *)
(* they do their requests are not authenticated.                               *)
Access(s) ==
    /\ connected[s] # 0 \/ req[s].op = "connect" => s \in Sse
    /\ connected[s] # 0 => req[s].pc \in {"idle", "handle"}
    /\ req[s].pc # "idle" \/ connected[s] # 0 =>
        (Valid(s) => since[s].valid) /\ member[s] <= since[s].best
    /\ req[s].pc = "member" => since[s].valid
    /\ req[s].pc = "handle" =>
        since[s].valid /\ req[s].ctx # 0 /\ req[s].ctx <= since[s].best
    /\ connected[s] # 0 => since[s].valid /\ connected[s] <= since[s].best
AccessInv == \A s \in Sessions : Access(s)

(* The roles are numbers.                                                      *)
LEMMA RoleNumbers ==
    ASSUME TypeOK, NEW s \in Sessions
    PROVE  /\ member[s] \in Nat /\ connected[s] \in Nat
           /\ req[s].ctx \in Nat /\ since[s].best \in Nat
<1>1. Roles \subseteq Nat
  BY DEF Roles
<1>2. member[s] \in Roles /\ connected[s] \in Roles /\ req[s].ctx \in Roles /\ since[s].best \in Roles
  BY DEF TypeOK
<1> QED
  BY <1>1, <1>2

(* A change of the rows is noted for whoever is served.                        *)
LEMMA AccessNoted ==
    ASSUME TypeOK, AccessInv, Noted, UNCHANGED <<req, connected>>,
           member' \in [Sessions -> Roles]
    PROVE  AccessInv'
<1> SUFFICES ASSUME NEW s \in Sessions PROVE Access(s)'
  BY DEF AccessInv
<1>1. Access(s)
  BY DEF AccessInv
<1>2. CASE req[s].pc = "idle" /\ connected[s] = 0
  BY <1>1, <1>2 DEF Access
<1>3. CASE ~(req[s].pc = "idle" /\ connected[s] = 0)
  <2>1. /\ since'[s].valid = (since[s].valid \/ (token'[s] = "active" /\ active'[s]))
        /\ since'[s].best = Higher(since[s].best, member'[s])
    BY <1>3 DEF Noted
  <2>2. /\ since[s].best \in Nat /\ req[s].ctx \in Nat /\ connected[s] \in Nat
        /\ member'[s] \in Nat
    BY RoleNumbers DEF Roles
  <2>3. since'[s].best \in Nat /\ since[s].best <= since'[s].best
        /\ member'[s] <= since'[s].best
    BY <2>1, <2>2 DEF Higher
  <2>4. (since[s].valid => since'[s].valid) /\ (Valid(s)' => since'[s].valid)
    BY <2>1, Zenon DEF Valid
  <2> QED
    BY <1>1, <1>3, <2>2, <2>3, <2>4 DEF Access
<1> QED
  BY <1>2, <1>3

(* A step of one request touches nobody else's.                                *)
LEMMA AccessOfOne ==
    ASSUME AccessInv, NEW s \in Sessions, UNCHANGED <<token, active, member>>,
           \A t \in Sessions \ {s} :
               req'[t] = req[t] /\ connected'[t] = connected[t] /\ since'[t] = since[t],
           Access(s)'
    PROVE  AccessInv'
<1> SUFFICES ASSUME NEW t \in Sessions, t # s PROVE Access(t)'
  BY DEF AccessInv
<1> QED
  BY DEF AccessInv, Access, Valid

(* A request that is over leaves at most an open connection.                   *)
LEMMA AccessDone ==
    ASSUME TypeOK, AccessInv, NEW s \in Sessions, UNCHANGED <<token, active, member>>,
           Done(s), connected' \in [Sessions -> Roles],
           \A t \in Sessions \ {s} : connected'[t] = connected[t],
           connected'[s] # 0 =>
               /\ s \in Sse /\ since[s].valid /\ connected'[s] <= since[s].best
               /\ member[s] <= since[s].best
    PROVE  AccessInv'
<1>1. req'[s] = NoRequest /\ (connected'[s] # 0 => since'[s] = since[s])
  BY DEF Done, TypeOK
<1>2. \A t \in Sessions \ {s} : req'[t] = req[t] /\ since'[t] = since[t]
  BY DEF Done, TypeOK
<1>3. Access(s)'
  BY <1>1 DEF Access, NoRequest, Valid
<1> QED
  BY <1>2, <1>3, AccessOfOne

LEMMA AccessStep == TypeOK /\ AccessInv /\ [Next]_vars => AccessInv'
<1> SUFFICES ASSUME TypeOK, AccessInv, [Next]_vars, TypeOK' PROVE AccessInv'
  BY TypeStep
<1> USE DEF rows, request, registry
<1>a. \A s \in Sessions : Access(s)
  BY DEF AccessInv
<1>b. member' \in [Sessions -> Roles] /\ connected' \in [Sessions -> Roles]
  BY DEF TypeOK
<1>c. ASSUME NEW s \in Sessions, NEW what, Upset(s, what) PROVE AccessInv'
  BY <1>b, <1>c, AccessNoted DEF Upset
<1>d. ASSUME UNCHANGED <<token, active, member, req, connected, since>> PROVE AccessInv'
  BY <1>d DEF AccessInv, Access, Valid
<1>1. ASSUME NEW s \in Sessions, NEW what, NEW k, Arrive(s, what, k),
             connected[s] = 0, what = "connect" => s \in Sse
      PROVE  AccessInv'
  <2>1. /\ req'[s] = [pc |-> "token", op |-> what, key |-> k, ctx |-> 0]
        /\ since'[s] = [valid |-> Valid(s), best |-> member[s]]
        /\ \A t \in Sessions \ {s} : req'[t] = req[t] /\ since'[t] = since[t]
        /\ UNCHANGED <<token, active, member, connected>>
    BY <1>1 DEF Arrive, TypeOK
  <2>2. Access(s)'
    <3>1. member[s] \in Nat
      BY RoleNumbers
    <3>2. Valid(s)' => Valid(s)
      BY <2>1 DEF Valid
    <3>3. Valid(s) => since'[s].valid
      <4> DEFINE b == Valid(s)
      <4>1. since'[s] = [valid |-> b, best |-> member[s]] /\ b \in BOOLEAN
        BY <2>1 DEF Valid
      <4> HIDE DEF b
      <4>2. since'[s].valid = b
        BY <4>1
      <4> QED
        BY <4>2 DEF b
    <3> QED
      BY <1>1, <2>1, <3>1, <3>2, <3>3 DEF Access
  <2> QED
    BY <2>1, <2>2, AccessOfOne
<1>2. ASSUME NEW s \in Sessions, NEW what \in Ops, NEW k, Message(s, what, k) PROVE AccessInv'
  <2>1. /\ req'[s] = [pc |-> "handle", op |-> what, key |-> k, ctx |-> connected[s]]
        /\ \A t \in Sessions \ {s} : req'[t] = req[t]
        /\ UNCHANGED <<token, active, member, connected, since>> /\ connected[s] # 0
    BY <1>2 DEF Message, TypeOK
  <2>2. Access(s)'
    BY <1>a, <2>1 DEF Access, Valid
  <2> QED
    BY <2>1, <2>2, AccessOfOne
<1>3. ASSUME NEW s \in Sessions, ReadToken(s) PROVE AccessInv'
  <2>0. connected[s] = 0 /\ UNCHANGED <<token, active, member, connected>>
    BY <1>a, <1>3 DEF ReadToken, Access
  <2>1. CASE Valid(s)
    <3>1. /\ req'[s].pc = "member" /\ req'[s].op = req[s].op
          /\ \A t \in Sessions \ {s} : req'[t] = req[t]
          /\ UNCHANGED since
      BY <1>3, <2>1 DEF ReadToken, TypeOK
    <3>2. Access(s)'
      BY <1>a, <1>3, <2>0, <2>1, <3>1 DEF Access, Valid, ReadToken
    <3> QED
      BY <2>0, <3>1, <3>2, AccessOfOne
  <2>2. CASE ~Valid(s)
    BY <1>3, <1>b, <2>0, <2>2, AccessDone DEF ReadToken
  <2> QED
    BY <2>1, <2>2
<1>4. ASSUME NEW s \in Sessions, ReadMember(s) PROVE AccessInv'
  <2>0. /\ connected[s] = 0 /\ UNCHANGED <<token, active, member>> /\ req[s].pc = "member"
        /\ since[s].valid /\ member[s] <= since[s].best
    BY <1>a, <1>4 DEF ReadMember, Access
  <2>1. CASE Admit(s) = 0
    BY <1>4, <1>b, <2>0, <2>1, AccessDone DEF ReadMember
  <2>2. CASE Admit(s) # 0 /\ req[s].op = "connect"
    <3>1. /\ Done(s) /\ s \in Sse /\ connected'[s] = member[s]
          /\ \A t \in Sessions \ {s} : connected'[t] = connected[t]
      BY <1>4, <1>a, <2>2 DEF ReadMember, Admit, Access, TypeOK
    <3> QED
      BY <1>b, <2>0, <3>1, AccessDone
  <2>3. CASE Admit(s) # 0 /\ req[s].op # "connect"
    <3>1. /\ req'[s].pc = "handle" /\ req'[s].op = req[s].op /\ req'[s].ctx = member[s]
          /\ member[s] # 0 /\ \A t \in Sessions \ {s} : req'[t] = req[t]
          /\ UNCHANGED <<connected, since>>
      BY <1>4, <2>3 DEF ReadMember, Admit, TypeOK
    <3>2. Access(s)'
      BY <2>0, <2>3, <3>1 DEF Access, Valid
    <3> QED
      BY <2>0, <3>1, <3>2, AccessOfOne
  <2> QED
    BY <2>1, <2>2, <2>3
<1>5. ASSUME NEW s \in Sessions, NEW what, Handle(s, what) PROVE AccessInv'
  <2>1. connected[s] # 0 => /\ s \in Sse /\ since[s].valid /\ connected[s] <= since[s].best
                            /\ member[s] <= since[s].best
    BY <1>a DEF Access
  <2> QED
    BY <1>5, <1>b, <2>1, AccessDone DEF Handle
<1>6. ASSUME NEW s \in Sessions, Reconnect(s) PROVE AccessInv'
  <2>1. /\ connected'[s] = 0 /\ \A t \in Sessions \ {s} : connected'[t] = connected[t]
        /\ UNCHANGED <<token, active, member>> /\ Done(s)
    BY <1>6 DEF Reconnect, TypeOK
  <2> QED
    BY <1>b, <2>1, AccessDone
<1>7. ASSUME NEW s \in Sessions, Request(s) PROVE AccessInv'
  <2>1. CASE Connect(s)
    BY <2>1, <1>1 DEF Connect
  <2>2. ASSUME NEW what \in Ops, NEW k \in Keys, Send(s, what, k) PROVE AccessInv'
    <3>1. connected[s] = 0 /\ what # "connect"
      BY <2>2, <1>a DEF Send, Access, Ops
    <3> QED
      BY <2>2, <3>1, <1>1 DEF Send
  <2> QED
    BY <1>7, <2>1, <2>2, <1>2, <1>3, <1>4, <1>5
    DEF Request, Subscribe, Unsubscribe, Listen, Write
<1>8. ASSUME NEW s \in Sessions, TokenRequest(s) PROVE AccessInv'
  BY <1>8, <1>c, <1>d DEF TokenRequest, Ask, CheckMember, MintToken, RevokeToken
<1>9. ASSUME NEW s \in Sessions, Change(s) PROVE AccessInv'
  BY <1>9, <1>c DEF Change, AddMember, RemoveMember, SwitchUser, AdminRevoke
<1>10. ASSUME NEW s \in Sessions, Notify(s) PROVE AccessInv'
  BY <1>10, <1>d DEF Notify, StartTask, EndTask, Tell
<1>11. ASSUME UNCHANGED vars PROVE AccessInv'
  BY <1>11, <1>d DEF vars
<1> QED
  BY <1>6, <1>7, <1>8, <1>9, <1>10, <1>11 DEF Next

(* A request is served with no more than its user held at some time since its  *)
(* authentication began, for any number of sessions on either transport and    *)
(* any changes of tokens, users and members in between.                        *)
THEOREM ServedWithinHeld == Spec => []NeverMoreThanHeld
<1>1. Init => AccessInv
  BY DEF Init, AccessInv, Access, NoRequest
<1>2. AccessInv => NeverMoreThanHeld
  BY DEF AccessInv, Access, NeverMoreThanHeld
<1> QED
  BY <1>1, <1>2, TypeCorrect, AccessStep, PTL DEF Spec

-----------------------------------------------------------------------------
(* Nobody is told of another project                                           *)

(* The inductive invariant: a change that a session writes is in a domain of   *)
(* its own project, so a task that announces it is about one, and sends to     *)
(* other sessions of that project only.                                        *)
WritesOwn == \A s \in Sessions : req[s].op = "write" => req[s].key \in Own(s)
RegisteredOwn == \A s \in Sessions :
    listening[s] \subseteq Own(s) /\ \A k \in Keys : subs[k][s] # 0 => k \in Own(s)
Mates(s) == {t \in Sessions \ {s} : ProjectOf[t] = ProjectOf[s]}
TaskOwn(x, s) ==
    /\ x.stage # "none" => x.about \in Own(s)
    /\ \A t \in Sessions : x.todo[t] # 0 => t \in Mates(s)
    /\ x.told \subseteq Mates(s)
TasksOwn == \A s \in Sessions : TaskOwn(task[s], s)
OwnInv == WritesOwn /\ RegisteredOwn /\ TasksOwn

(* Two sessions that own one key are of one project.                           *)
LEMMA OneProject ==
    ASSUME NEW s, NEW t, NEW k, k \in Own(s), k \in Own(t)
    PROVE  ProjectOf[s] = ProjectOf[t]
BY DEF Own

(* Who is due to be told does not matter.                                      *)
Same(x, y) == y.stage = x.stage /\ y.about = x.about /\ y.todo = x.todo /\ y.told = x.told

LEMMA DueAside ==
    ASSUME NEW x \in Tasks, NEW S, NEW y, y = x \/ y = [x EXCEPT !.due = x.due \ S]
    PROVE  Same(x, y)
BY DEF Tasks, Same

LEMMA NoTaskOwn == ASSUME NEW s \in Sessions PROVE TaskOwn(NoTask, s)
BY DEF TaskOwn, NoTask, Nobody

(* A request that is over, or goes on, keeps its key.                          *)
LEMMA WritesStep == TypeOK /\ WritesOwn /\ [Next]_vars => WritesOwn'
<1> SUFFICES ASSUME TypeOK, WritesOwn, [Next]_vars PROVE WritesOwn'
  OBVIOUS
<1> USE DEF rows, request, registry
<1>a. req \in [Sessions -> Requests]
  BY DEF TypeOK, Requests
<1>b. ASSUME UNCHANGED req PROVE WritesOwn'
  BY <1>b DEF WritesOwn
<1>c. ASSUME NEW s \in Sessions, Done(s) PROVE WritesOwn'
  BY <1>a, <1>c DEF WritesOwn, Done, NoRequest
<1>d. ASSUME NEW s \in Sessions, NEW step, NEW what, NEW k, NEW r,
             req' = [req EXCEPT ![s] = [pc |-> step, op |-> what, key |-> k, ctx |-> r]],
             what = "write" => k \in Own(s)
      PROVE  WritesOwn'
  BY <1>a, <1>d DEF WritesOwn
<1>1. ASSUME NEW s \in Sessions, Connect(s) PROVE WritesOwn'
  <2>1. req' = [req EXCEPT ![s] = [pc |-> "token", op |-> "connect", key |-> NoKey, ctx |-> 0]]
    BY <1>1 DEF Connect, Arrive
  <2> QED
    BY <1>a, <2>1 DEF WritesOwn
<1>2. ASSUME NEW s \in Sessions, NEW what, NEW k, Send(s, what, k) \/ Message(s, what, k)
      PROVE  WritesOwn'
  <2>1. what = "write" => k \in Own(s)
    BY <1>2 DEF Send, Message, Sends
  <2>2. \/ req' = [req EXCEPT ![s] = [pc |-> "token", op |-> what, key |-> k, ctx |-> 0]]
        \/ req' = [req EXCEPT ![s] =
                     [pc |-> "handle", op |-> what, key |-> k, ctx |-> connected[s]]]
    BY <1>2 DEF Send, Message, Arrive
  <2> QED
    BY <1>d, <2>1, <2>2
<1>3. ASSUME NEW s \in Sessions, ReadToken(s) \/ ReadMember(s) PROVE WritesOwn'
  <2>1. CASE Done(s)
    BY <2>1, <1>c
  <2>2. CASE ~Done(s)
    <3>1. \/ req' = [req EXCEPT ![s].pc = "member"]
          \/ req' = [req EXCEPT ![s].pc = "handle", ![s].ctx = Admit(s)]
      BY <1>3, <2>2 DEF ReadToken, ReadMember
    <3>2. \A t \in Sessions : req'[t].op = req[t].op /\ req'[t].key = req[t].key
      BY <1>a, <3>1 DEF Requests
    <3> QED
      BY <3>2 DEF WritesOwn
  <2> QED
    BY <2>1, <2>2
<1>4. ASSUME NEW s \in Sessions, NEW what, Handle(s, what) PROVE WritesOwn'
  BY <1>4, <1>c DEF Handle
<1>5. ASSUME NEW s \in Sessions, Request(s) PROVE WritesOwn'
  BY <1>5, <1>1, <1>2, <1>3, <1>4 DEF Request, Subscribe, Unsubscribe, Listen, Write
<1>6. ASSUME NEW s \in Sessions, TokenRequest(s) \/ Change(s) \/ Notify(s) PROVE WritesOwn'
  BY <1>6, <1>b
  DEF TokenRequest, Ask, CheckMember, MintToken, RevokeToken, Change, AddMember, RemoveMember,
      SwitchUser, AdminRevoke, Upset, Notify, StartTask, EndTask, Tell
<1>7. ASSUME NEW s \in Sessions, Reconnect(s) PROVE WritesOwn'
  BY <1>7, <1>c DEF Reconnect
<1> QED
  BY <1>b, <1>5, <1>6, <1>7 DEF Next, vars

(* The registrations and the tasks change in the handlers and in the tasks.    *)
LEMMA OwnStep == TypeOK /\ OwnInv /\ [Next]_vars => OwnInv'
<1> SUFFICES ASSUME TypeOK, OwnInv, [Next]_vars PROVE RegisteredOwn' /\ TasksOwn'
  BY WritesStep DEF OwnInv
<1> USE DEF rows, request, registry
<1>a. /\ subs \in [Keys -> [Sessions -> Lines]] /\ listening \in [Sessions -> SUBSET Keys]
      /\ task \in [Sessions -> Tasks] /\ req \in [Sessions -> Requests]
  BY DEF TypeOK, Tasks, Requests
<1>b. /\ \A s \in Sessions : req[s].op = "write" => req[s].key \in Own(s)
      /\ \A s \in Sessions : TaskOwn(task[s], s)
  BY DEF OwnInv, WritesOwn, TasksOwn
<1>c. ASSUME UNCHANGED <<subs, listening>> PROVE RegisteredOwn'
  BY <1>c DEF OwnInv, RegisteredOwn
<1>d. ASSUME UNCHANGED task PROVE TasksOwn'
  BY <1>d DEF OwnInv, TasksOwn
<1>e. ASSUME NEW s \in Sessions, NEW x, TaskOwn(x, s), task' = [task EXCEPT ![s] = x]
      PROVE  TasksOwn'
  BY <1>a, <1>b, <1>e DEF TasksOwn
<1>1. ASSUME NEW s \in Sessions, NEW l \in Lines, Registered(s, l), UNCHANGED listening
      PROVE  RegisteredOwn'
  BY <1>1, <1>a DEF OwnInv, RegisteredOwn, Registered, Named
<1>2. ASSUME NEW s \in Sessions, Subscribe(s) PROVE RegisteredOwn' /\ TasksOwn'
  BY <1>2, <1>1, <1>d DEF Subscribe, TypeOK
<1>3. ASSUME \A t \in Sessions : Same(task[t], task'[t]) PROVE TasksOwn'
  BY <1>3, <1>b DEF TasksOwn, TaskOwn, Same
<1>4. ASSUME NEW s \in Sessions, Unsubscribe(s) PROVE RegisteredOwn' /\ TasksOwn'
  <2>1. RegisteredOwn'
    BY <1>4, <1>1, SessionsAssumption DEF Unsubscribe, Lines
  <2>2. \A t \in Sessions : task'[t] = task[t] \/ task'[t] = [task[t] EXCEPT !.due = @ \ {s}]
    BY <1>4 DEF Unsubscribe
  <2>3. TasksOwn'
    <3>1. ASSUME NEW t \in Sessions
          PROVE  Same(task[t], task'[t])
      <4>1. task[t] \in Tasks
        BY <1>a
      <4> QED
        BY <2>2, <4>1, DueAside
    <3> QED
      BY <1>3, <3>1
  <2> QED
    BY <2>1, <2>3
<1>5. ASSUME NEW s \in Sessions, Listen(s) PROVE RegisteredOwn' /\ TasksOwn'
  BY <1>5, <1>a, <1>d DEF Listen, Named, OwnInv, RegisteredOwn
<1>6. ASSUME NEW s \in Sessions, Write(s) PROVE RegisteredOwn' /\ TasksOwn'
  <2>1. RegisteredOwn'
    BY <1>6, <1>c DEF Write
  <2>2. CASE req[s].ctx # 2
    BY <1>6, <1>d, <2>1, <2>2 DEF Write
  <2>3. CASE req[s].ctx = 2
    <3> DEFINE x == [task[s] EXCEPT !.stage = "scheduled", !.about = req[s].key,
                        !.due = {t \in Sessions \ {s} : subs[req[s].key][t] = line[t]}]
    <3>1. task' = [task EXCEPT ![s] = x]
      BY <1>6, <1>a, <2>3 DEF Write
    <3>2. /\ x.about = req[s].key /\ x.todo = task[s].todo /\ x.told = task[s].told
          /\ req[s].key \in Own(s)
      BY <1>6, <1>a, <1>b DEF Tasks, Write, Handle
    <3>3. TaskOwn(x, s)
      BY <1>b, <3>2 DEF TaskOwn
    <3> QED
      BY <1>e, <2>1, <3>1, <3>3
  <2> QED
    BY <2>2, <2>3
<1>7. ASSUME NEW s \in Sessions, StartTask(s) PROVE RegisteredOwn' /\ TasksOwn'
  <2> DEFINE f == [subs[task[s].about] EXCEPT ![s] = 0]
             x == [task[s] EXCEPT !.stage = "sending", !.todo = f]
  <2>1. task' = [task EXCEPT ![s] = x] /\ UNCHANGED <<subs, listening>>
    BY <1>7, <1>a DEF StartTask
  <2>2. task[s].about \in Own(s) /\ task[s].about \in Keys
    BY <1>7, <1>a, <1>b, TaskFields DEF StartTask, TaskOwn
  <2>3. ASSUME NEW t \in Sessions, f[t] # 0 PROVE t \in Mates(s)
    <3>1. t # s /\ subs[task[s].about][t] # 0
      BY <1>a, <2>2, <2>3
    <3>2. task[s].about \in Own(t)
      BY <2>2, <3>1 DEF OwnInv, RegisteredOwn
    <3> QED
      BY <2>2, <3>1, <3>2, OneProject DEF Mates
  <2>4. x.about = task[s].about /\ x.todo = f /\ x.told = task[s].told
    BY <1>a DEF Tasks
  <2>5. TaskOwn(x, s)
    BY <1>b, <2>2, <2>3, <2>4 DEF TaskOwn
  <2> QED
    BY <1>c, <1>e, <2>1, <2>5
<1>8. ASSUME NEW s \in Sessions, NEW t \in Sessions, Tell(s, t) PROVE RegisteredOwn' /\ TasksOwn'
  <2>1. task' = [task EXCEPT ![s] = Found(s, t)] \/ task' = [task EXCEPT ![s] = Reached(s, t)]
    BY <1>8 DEF Tell
  <2>2. t \in Mates(s) /\ UNCHANGED <<subs, listening>>
    BY <1>8, <1>b DEF Tell, TaskOwn
  <2>3. /\ Found(s, t).stage = task[s].stage /\ Found(s, t).about = task[s].about
        /\ Found(s, t).told = task[s].told
        /\ \A u \in Sessions : Found(s, t).todo[u] # 0 => task[s].todo[u] # 0
    BY <1>a DEF Found, Tasks
  <2>4. /\ Reached(s, t).stage = task[s].stage /\ Reached(s, t).about = task[s].about
        /\ Reached(s, t).told = task[s].told \cup {t}
        /\ \A u \in Sessions : Reached(s, t).todo[u] # 0 => task[s].todo[u] # 0
    BY <1>a DEF Reached, Tasks
  <2>5. TaskOwn(Found(s, t), s) /\ TaskOwn(Reached(s, t), s)
    BY <1>b, <2>2, <2>3, <2>4 DEF TaskOwn
  <2> QED
    BY <1>c, <1>e, <2>1, <2>2, <2>5
<1>9. ASSUME NEW s \in Sessions, EndTask(s) PROVE RegisteredOwn' /\ TasksOwn'
  <2>1. RegisteredOwn'
    BY <1>9 DEF EndTask, OwnInv, RegisteredOwn
  <2>2. task'[s] = NoTask /\ \A t \in Sessions \ {s} :
          task'[t] = [task[t] EXCEPT !.due = @ \ task[s].dead]
    BY <1>9 DEF EndTask
  <2>3. ASSUME NEW t \in Sessions \ {s} PROVE TaskOwn(task'[t], t)
    <3>1. task[t] \in Tasks
      BY <1>a
    <3>2. Same(task[t], task'[t])
      BY <2>2, <3>1, DueAside
    <3> QED
      BY <1>b, <3>2 DEF TaskOwn, Same
  <2> QED
    BY <2>1, <2>2, <2>3, NoTaskOwn DEF TasksOwn
<1>10. ASSUME NEW s \in Sessions, Reconnect(s) PROVE RegisteredOwn' /\ TasksOwn'
  <2>1. RegisteredOwn'
    BY <1>10, <1>a DEF Reconnect, OwnInv, RegisteredOwn
  <2>2. \A t \in Sessions : task'[t] = [task[t] EXCEPT !.due = @ \ {s}]
    BY <1>10 DEF Reconnect
  <2>3. ASSUME NEW t \in Sessions
        PROVE  Same(task[t], task'[t])
    <3>1. task[t] \in Tasks
      BY <1>a
    <3> QED
      BY <2>2, <3>1, DueAside
  <2> QED
    BY <1>3, <2>1, <2>3
<1>11. ASSUME NEW s \in Sessions, Request(s) PROVE RegisteredOwn' /\ TasksOwn'
  <2>1. CASE UNCHANGED <<subs, listening, task>>
    BY <2>1, <1>c, <1>d
  <2>2. CASE Subscribe(s) \/ Unsubscribe(s) \/ Listen(s) \/ Write(s)
    BY <2>2, <1>2, <1>4, <1>5, <1>6
  <2> QED
    BY <1>11, <2>1, <2>2 DEF Request, Connect, Send, Message, Arrive, ReadToken, ReadMember
<1>12. ASSUME NEW s \in Sessions, TokenRequest(s) \/ Change(s) PROVE RegisteredOwn' /\ TasksOwn'
  BY <1>12, <1>c, <1>d
  DEF TokenRequest, Ask, CheckMember, MintToken, RevokeToken, Change, AddMember, RemoveMember,
      SwitchUser, AdminRevoke, Upset
<1> QED
  BY <1>c, <1>d, <1>7, <1>8, <1>9, <1>10, <1>11, <1>12 DEF Next, Notify, vars

(* Nobody is registered for or told of a domain of another project, nor told   *)
(* of its own change, for any number of sessions, projects and domains.        *)
THEOREM OwnProject == Spec => []OwnProjectOnly
<1>1. Init => OwnInv
  BY NoTaskOwn
  DEF Init, OwnInv, WritesOwn, RegisteredOwn, TasksOwn, NoRequest, Nobody
<1>2. OwnInv => OwnProjectOnly
  BY DEF OwnInv, RegisteredOwn, TasksOwn, TaskOwn, Mates, OwnProjectOnly
<1>3. TypeOK /\ OwnInv /\ [Next]_vars => OwnInv'
  BY OwnStep
<1> QED
  BY <1>1, <1>2, <1>3, TypeCorrect, PTL DEF Spec

-----------------------------------------------------------------------------
(* Who stays subscribed is told                                                *)

(* The inductive invariant: whoever is due to be told is registered over its   *)
(* current connection until the task takes the list of those to be told, and   *)
(* on that list with its current connection from then on.                      *)
Due(x, s, registered, current) == \A t \in x.due :
    /\ x.stage = "scheduled" => t # s /\ registered[x.about][t] = current[t]
    /\ x.stage = "sending" => t \in x.told \/ x.todo[t] = current[t]
SteadyInv == \A s \in Sessions : Due(task[s], s, subs, line)

LEMMA SteadyStep == TypeOK /\ SteadyInv /\ [Next]_vars => SteadyInv'
<1> SUFFICES ASSUME TypeOK, SteadyInv, [Next]_vars PROVE SteadyInv'
  OBVIOUS
<1> USE DEF rows, request, registry
<1>a. /\ subs \in [Keys -> [Sessions -> Lines]] /\ task \in [Sessions -> Tasks]
      /\ line \in [Sessions -> Lines \ {0}] /\ req \in [Sessions -> Requests]
  BY DEF TypeOK, Tasks, Requests
<1>b. \A s \in Sessions : Due(task[s], s, subs, line)
  BY DEF SteadyInv
<1>c. \A s \in Sessions : task[s] \in Tasks /\ task[s].about \in Keys /\ req[s].key \in Keys
                          /\ task[s].due \subseteq Sessions
  BY <1>a, TaskFields DEF Requests
<1>d. ASSUME UNCHANGED <<subs, line, task>> PROVE SteadyInv'
  BY <1>d DEF SteadyInv
<1>e. ASSUME NEW s \in Sessions, NEW x, task' = [task EXCEPT ![s] = x],
             Due(x, s, subs, line), UNCHANGED <<subs, line>>
      PROVE  SteadyInv'
  BY <1>a, <1>b, <1>e DEF SteadyInv
<1>1. ASSUME NEW s \in Sessions, Subscribe(s) PROVE SteadyInv'
  <2>1. UNCHANGED <<line, task>> /\ \/ UNCHANGED subs
                                    \/ subs' = [subs EXCEPT ![req[s].key][s] = line[s]]
    BY <1>1 DEF Subscribe, Handle, Registered
  <2>2. \A k \in Keys, t \in Sessions : subs[k][t] = line[t] => subs'[k][t] = line[t]
    BY <1>a, <1>c, <2>1
  <2> QED
    BY <1>b, <1>c, <2>1, <2>2 DEF SteadyInv, Due
<1>2. ASSUME NEW s \in Sessions, Unsubscribe(s) PROVE SteadyInv'
  <2>1. UNCHANGED line /\ \/ UNCHANGED subs
                          \/ subs' = [subs EXCEPT ![req[s].key][s] = 0]
    BY <1>2 DEF Unsubscribe, Handle, Registered
  <2>2. \A k \in Keys, t \in Sessions : k # req[s].key \/ t # s => subs'[k][t] = subs[k][t]
    BY <1>a, <1>c, <2>1
  <2>3. ASSUME NEW t \in Sessions PROVE Due(task'[t], t, subs', line')
    <3>1. CASE task[t].about # req[s].key
      <4>1. task'[t] = task[t]
        BY <1>2, <3>1 DEF Unsubscribe
      <4> QED
        BY <1>b, <1>c, <2>1, <2>2, <3>1, <4>1 DEF Due
    <3>2. CASE task[t].about = req[s].key
      <4>1. task'[t] = [task[t] EXCEPT !.due = task[t].due \ {s}]
        BY <1>2, <3>2 DEF Unsubscribe
      <4>2. Same(task[t], task'[t])
        BY <1>c, <4>1, DueAside
      <4>3. task'[t].due = task[t].due \ {s}
        BY <1>c, <4>1 DEF Tasks
      <4> QED
        BY <1>b, <1>c, <2>1, <2>2, <4>2, <4>3 DEF Due, Same
    <3> QED
      BY <3>1, <3>2
  <2> QED
    BY <2>3 DEF SteadyInv
<1>3. ASSUME NEW s \in Sessions, Write(s) PROVE SteadyInv'
  <2>1. CASE req[s].ctx # 2
    BY <1>3, <1>d, <2>1 DEF Write, Handle
  <2>2. CASE req[s].ctx = 2
    <3> DEFINE due == {t \in Sessions \ {s} : subs[req[s].key][t] = line[t]}
               x == [task[s] EXCEPT !.stage = "scheduled", !.about = req[s].key, !.due = due]
    <3>1. task' = [task EXCEPT ![s] = x] /\ UNCHANGED <<subs, line>>
      BY <1>3, <1>a, <2>2 DEF Write, Handle
    <3>2. x.stage = "scheduled" /\ x.about = req[s].key /\ x.due = due
      BY <1>c DEF Tasks
    <3>3. Due(x, s, subs, line)
      BY <3>2 DEF Due
    <3> QED
      BY <1>e, <3>1, <3>3
  <2> QED
    BY <2>1, <2>2
<1>4. ASSUME NEW s \in Sessions, StartTask(s) PROVE SteadyInv'
  <2> DEFINE f == [subs[task[s].about] EXCEPT ![s] = 0]
             x == [task[s] EXCEPT !.stage = "sending", !.todo = f]
  <2>1. task' = [task EXCEPT ![s] = x] /\ UNCHANGED <<subs, line>> /\ task[s].stage = "scheduled"
    BY <1>4, <1>a DEF StartTask
  <2>2. x.stage = "sending" /\ x.todo = f /\ x.due = task[s].due
    BY <1>c DEF Tasks
  <2>3. \A t \in task[s].due : f[t] = line[t]
    BY <1>a, <1>b, <1>c, <2>1 DEF Due
  <2>4. Due(x, s, subs, line)
    BY <2>2, <2>3 DEF Due
  <2> QED
    BY <1>e, <2>1, <2>4
<1>5. ASSUME NEW s \in Sessions, NEW t \in Sessions, Tell(s, t) PROVE SteadyInv'
  <2>0. UNCHANGED <<subs, line>> /\ task[s].stage = "sending"
    BY <1>5 DEF Tell
  <2>1. CASE task[s].todo[t] # line[t]
    <3>1. /\ Found(s, t).stage = task[s].stage /\ Found(s, t).due = task[s].due
          /\ Found(s, t).told = task[s].told
          /\ \A u \in Sessions \ {t} : Found(s, t).todo[u] = task[s].todo[u]
      BY <1>c DEF Found, Tasks
    <3>2. Due(Found(s, t), s, subs, line)
      BY <1>b, <1>c, <2>0, <2>1, <3>1 DEF Due
    <3> QED
      BY <1>5, <1>e, <2>0, <2>1, <3>2 DEF Tell
  <2>2. CASE task[s].todo[t] = line[t]
    <3>1. /\ Reached(s, t).stage = task[s].stage /\ Reached(s, t).due = task[s].due
          /\ Reached(s, t).told = task[s].told \cup {t}
          /\ \A u \in Sessions \ {t} : Reached(s, t).todo[u] = task[s].todo[u]
      BY <1>c DEF Reached, Tasks
    <3>2. Due(Reached(s, t), s, subs, line)
      BY <1>b, <1>c, <2>0, <3>1 DEF Due
    <3> QED
      BY <1>5, <1>e, <2>0, <2>2, <3>2 DEF Tell
  <2> QED
    BY <2>1, <2>2
<1>6. ASSUME NEW s \in Sessions, EndTask(s) PROVE SteadyInv'
  <2>1. /\ UNCHANGED line /\ task'[s] = NoTask
        /\ \A k \in Keys, t \in Sessions : t \notin task[s].dead => subs'[k][t] = subs[k][t]
    BY <1>6 DEF EndTask
  <2>2. ASSUME NEW t \in Sessions \ {s} PROVE Due(task'[t], t, subs', line')
    <3>1. task'[t] = [task[t] EXCEPT !.due = task[t].due \ task[s].dead]
      BY <1>6 DEF EndTask
    <3>2. Same(task[t], task'[t])
      BY <1>c, <3>1, DueAside
    <3>3. task'[t].due = task[t].due \ task[s].dead
      BY <1>c, <3>1 DEF Tasks
    <3> QED
      BY <1>b, <1>c, <2>1, <3>2, <3>3 DEF Due, Same
  <2> QED
    BY <2>1, <2>2 DEF SteadyInv, Due, NoTask
<1>7. ASSUME NEW s \in Sessions, Reconnect(s) PROVE SteadyInv'
  <2>1. UNCHANGED subs /\ \A t \in Sessions \ {s} : line'[t] = line[t]
    BY <1>7, <1>a DEF Reconnect
  <2>2. ASSUME NEW t \in Sessions PROVE Due(task'[t], t, subs', line')
    <3>1. task'[t] = [task[t] EXCEPT !.due = task[t].due \ {s}]
      BY <1>7 DEF Reconnect
    <3>2. Same(task[t], task'[t])
      BY <1>c, <3>1, DueAside
    <3>3. task'[t].due = task[t].due \ {s}
      BY <1>c, <3>1 DEF Tasks
    <3> QED
      BY <1>b, <1>c, <2>1, <3>2, <3>3 DEF Due, Same
  <2> QED
    BY <2>2 DEF SteadyInv
<1>8. ASSUME NEW s \in Sessions, Request(s) PROVE SteadyInv'
  <2>1. CASE UNCHANGED <<subs, line, task>>
    BY <2>1, <1>d
  <2>2. CASE Subscribe(s) \/ Unsubscribe(s) \/ Write(s)
    BY <2>2, <1>1, <1>2, <1>3
  <2> QED
    BY <1>8, <2>1, <2>2
    DEF Request, Connect, Send, Message, Arrive, ReadToken, ReadMember, Listen, Handle
<1>9. ASSUME NEW s \in Sessions, TokenRequest(s) \/ Change(s) PROVE SteadyInv'
  BY <1>9, <1>d
  DEF TokenRequest, Ask, CheckMember, MintToken, RevokeToken, Change, AddMember, RemoveMember,
      SwitchUser, AdminRevoke, Upset
<1> QED
  BY <1>d, <1>4, <1>5, <1>6, <1>7, <1>8, <1>9 DEF Next, Notify, vars

(* A session that stays registered over one connection from a change until its *)
(* notification has been sent is told of it, for any number of sessions that   *)
(* subscribe, unsubscribe, break off and are found dead in between.            *)
THEOREM SteadyAreTold == Spec => []SteadySubscribersAreTold
<1>1. Init => SteadyInv
  BY DEF Init, SteadyInv, Due, NoTask
<1>2. TypeOK /\ SteadyInv => SteadySubscribersAreTold
  <2> SUFFICES ASSUME TypeOK, SteadyInv, NEW s \in Sessions, Told(s), NEW t \in task[s].due
               PROVE  t \in task[s].told
    BY DEF SteadySubscribersAreTold
  <2>1. task[s].stage = "sending" /\ task[s].todo = Nobody /\ Due(task[s], s, subs, line)
    BY DEF Told, SteadyInv
  <2>2. t \in Sessions /\ line[t] # 0
    <3>1. task[s] \in Tasks
      BY DEF TypeOK, Tasks
    <3>2. t \in Sessions
      BY <3>1, TaskFields
    <3> QED
      BY <3>2 DEF TypeOK
  <2> QED
    BY <2>1, <2>2 DEF Due, Nobody
<1>3. TypeOK /\ SteadyInv /\ [Next]_vars => SteadyInv'
  BY SteadyStep
<1> QED
  BY <1>1, <1>2, <1>3, TypeCorrect, PTL DEF Spec

=============================================================================
