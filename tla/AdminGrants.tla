----------------------------- MODULE AdminGrants -----------------------------
(***************************************************************************)
(* Who administers the instance.  An AdminGrant row makes a user a          *)
(* superadmin; the admin pages grant and revoke, deactivate and activate    *)
(* accounts; the first grant comes from an OAuth login or from the command  *)
(* line.  Each request is a task, cut here at its awaits; a revocation runs *)
(* in a transaction that locks the row it is about to delete.               *)
(***************************************************************************)
EXTENDS Naturals, FiniteSets

CONSTANTS
    Users,
    Requests,     \* the requests the server receives, each one a task
    Admins,       \* the superadmins there are to begin with
    Bootstrap,    \* users whose login matches the bootstrap address, or whom
                  \* the command line creates
    Ops,          \* the operations this instance exercises
    SerialTxns,   \* transactions exclude each other (SQLite), or only when they
                  \* lock the same row (Postgres, READ COMMITTED)
    NoUser, NoGrant

AllOps == {"grant", "revoke", "deactivate", "activate", "bootstrap"}

ASSUME UsersAssumption ==
    Admins \subseteq Users /\ Bootstrap \subseteq Users /\ NoUser \notin Users
ASSUME OpsAssumption == Ops \subseteq AllOps
ASSUME SerialAssumption == SerialTxns \in BOOLEAN

Grants == [user : Users, id : Nat]
ASSUME NoGrantAssumption == NoGrant \notin Grants

VARIABLES
    active,   \* User.active
    grants,   \* the AdminGrant rows, [user, id]; unique per user
    lastId,   \* the newest id of a row
    op,       \* what each request asks for
    pc,       \* the step it is at
    user,     \* the user it is about
    found,    \* the grant a revocation looked up
    log,      \* InstanceEvent rows: [by, kind, user]
    overtaken \* revocations that counted a row which another one deletes before
              \* they delete theirs; no code keeps it

vars == <<active, grants, lastId, op, pc, user, found, log, overtaken>>

Txn == {"count", "delete"}
InFlight == Txn \cup {"bootCount", "look", "insert", "refetch", "logGrant", "find",
                      "lock", "logRevoke", "isAdmin", "isLast", "write", "logWrite",
                      "activate"}
Holds(u) == \E g \in grants : g.user = u

TypeOK ==
    /\ active \in [Users -> BOOLEAN]
    /\ grants \subseteq Grants
    /\ lastId \in Nat
    /\ op \in [Requests -> Ops \cup {"none"}]
    /\ pc \in [Requests -> InFlight \cup {"idle", "done"}]
    /\ user \in [Requests -> Users \cup {NoUser}]
    /\ \A q \in Requests : pc[q] \in InFlight => user[q] \in Users
    /\ found \in [Requests -> Grants \cup {NoGrant}]
    /\ \A q \in Requests : pc[q] \in Txn \cup {"lock"} => found[q] \in Grants
    /\ log \subseteq [by : Requests, user : Users,
                      kind : {"granted", "revoked", "deactivated"}]
    /\ overtaken \subseteq Requests

Init ==
    /\ active = [u \in Users |-> TRUE]
    /\ grants = [user : Admins, id : {0}]
    /\ lastId = 0
    /\ op = [q \in Requests |-> "none"]
    /\ pc = [q \in Requests |-> "idle"]
    /\ user = [q \in Requests |-> NoUser]
    /\ found = [q \in Requests |-> NoGrant]
    /\ log = {}
    /\ overtaken = {}

GoTo(q, step) == pc' = [pc EXCEPT ![q] = step]
Record(q, kind) == log' = log \cup {[by |-> q, user |-> user[q], kind |-> kind]}

-----------------------------------------------------------------------------
\* get_current_admin: the caller is active and holds a grant.
Authorised == \E a \in Users : active[a] /\ Holds(a)

FirstStep(o) == CASE o = "grant" -> "look" [] o = "revoke" -> "find"
    [] o = "deactivate" -> "isAdmin" [] o = "activate" -> "activate"
    [] o = "bootstrap" -> "bootCount"

Receive(q, o) ==
    /\ pc[q] = "idle" /\ o \in Ops
    /\ op' = [op EXCEPT ![q] = o]
    /\ IF o = "bootstrap"
       THEN \E u \in Bootstrap : user' = [user EXCEPT ![q] = u]
       ELSE Authorised /\ \E u \in Users : user' = [user EXCEPT ![q] = u]
    /\ GoTo(q, FirstStep(o))
    /\ UNCHANGED <<active, grants, lastId, found, log, overtaken>>

-----------------------------------------------------------------------------
(* maybe_bootstrap_admin, _do_bootstrap, grant_superadmin *)

BootCount(q) ==
    /\ pc[q] = "bootCount"
    /\ GoTo(q, IF grants = {} THEN "look" ELSE "done")
    /\ UNCHANGED <<active, grants, lastId, op, user, found, log, overtaken>>

Look(q) ==
    /\ pc[q] = "look"
    /\ GoTo(q, IF Holds(user[q]) THEN "done" ELSE "insert")
    /\ UNCHANGED <<active, grants, lastId, op, user, found, log, overtaken>>

\* Mutant of Insert: the loser of the race logs its grant all the same.
InsertLogged(q) ==
    /\ pc[q] = "insert"
    /\ IF Holds(user[q])
       THEN UNCHANGED <<grants, lastId>>
       ELSE /\ lastId' = lastId + 1
            /\ grants' = grants \cup {[user |-> user[q], id |-> lastId + 1]}
    /\ GoTo(q, "logGrant")
    /\ UNCHANGED <<active, op, user, found, log, overtaken>>

\* (user, role) is unique: IntegrityError sends the loser of a race to re-fetch
\* the row, which is an error when it is gone again.
Insert(q) ==
    /\ pc[q] = "insert"
    /\ IF Holds(user[q])
       THEN GoTo(q, "refetch") /\ UNCHANGED <<grants, lastId>>
       ELSE /\ lastId' = lastId + 1
            /\ grants' = grants \cup {[user |-> user[q], id |-> lastId + 1]}
            /\ GoTo(q, "logGrant")
    /\ UNCHANGED <<active, op, user, found, log, overtaken>>

Refetch(q) ==
    /\ pc[q] = "refetch"
    /\ GoTo(q, "done")
    /\ UNCHANGED <<active, grants, lastId, op, user, found, log, overtaken>>

LogGrant(q) ==
    /\ pc[q] = "logGrant"
    /\ Record(q, "granted")
    /\ GoTo(q, "done")
    /\ UNCHANGED <<active, grants, lastId, op, user, found, overtaken>>

-----------------------------------------------------------------------------
(* revoke_admin_route, revoke_superadmin *)

Find(q) ==
    /\ pc[q] = "find"
    /\ \/ \E g \in grants :
            /\ g.user = user[q]
            /\ found' = [found EXCEPT ![q] = g]
            /\ GoTo(q, "lock")
       \/ ~Holds(user[q]) /\ GoTo(q, "done") /\ UNCHANGED found
    /\ UNCHANGED <<active, grants, lastId, op, user, log, overtaken>>

\* Another transaction keeps this one waiting.
Blocked(q) == \E r \in Requests \ {q} :
    pc[r] \in Txn /\ (SerialTxns \/ found[r] = found[q])

\* Mutant of Lock: the transaction does not wait for the others.
LockNothing(q) ==
    /\ pc[q] = "lock"
    /\ GoTo(q, IF found[q] \in grants THEN "count" ELSE "done")
    /\ UNCHANGED <<active, grants, lastId, op, user, found, log, overtaken>>

\* SELECT ... FOR UPDATE of the grant that was found.
Lock(q) ==
    /\ pc[q] = "lock" /\ ~Blocked(q)
    /\ GoTo(q, IF found[q] \in grants THEN "count" ELSE "done")
    /\ UNCHANGED <<active, grants, lastId, op, user, found, log, overtaken>>

\* active_superadmin_count() <= 1: deactivated users' grants count.
CountIsOne == \A g, h \in grants : g = h

\* is_last_active_superadmin, in the transaction: the locked row is the user's.
Count(q) ==
    /\ pc[q] = "count"
    /\ GoTo(q, IF CountIsOne THEN "done" ELSE "delete")
    /\ UNCHANGED <<active, grants, lastId, op, user, found, log, overtaken>>

Delete(q) ==
    /\ pc[q] = "delete"
    /\ grants' = grants \ {found[q]}
    /\ overtaken' = overtaken \cup {r \in Requests \ {q} : pc[r] = "delete"}
    /\ GoTo(q, "logRevoke")
    /\ UNCHANGED <<active, lastId, op, user, found, log>>

LogRevoke(q) ==
    /\ pc[q] = "logRevoke"
    /\ Record(q, "revoked")
    /\ GoTo(q, "done")
    /\ UNCHANGED <<active, grants, lastId, op, user, found, overtaken>>

-----------------------------------------------------------------------------
(* deactivate_user, activate_user: no transaction *)

IsAdmin(q) ==
    /\ pc[q] = "isAdmin"
    /\ GoTo(q, IF Holds(user[q]) THEN "isLast" ELSE "write")
    /\ UNCHANGED <<active, grants, lastId, op, user, found, log, overtaken>>

IsLast(q) ==
    /\ pc[q] = "isLast"
    /\ GoTo(q, IF CountIsOne THEN "done" ELSE "write")
    /\ UNCHANGED <<active, grants, lastId, op, user, found, log, overtaken>>

Write(q) ==
    /\ pc[q] = "write"
    /\ active' = [active EXCEPT ![user[q]] = FALSE]
    /\ GoTo(q, "logWrite")
    /\ UNCHANGED <<grants, lastId, op, user, found, log, overtaken>>

LogWrite(q) ==
    /\ pc[q] = "logWrite"
    /\ Record(q, "deactivated")
    /\ GoTo(q, "done")
    /\ UNCHANGED <<active, grants, lastId, op, user, found, overtaken>>

Activate(q) ==
    /\ pc[q] = "activate"
    /\ active' = [active EXCEPT ![user[q]] = TRUE]
    /\ GoTo(q, "done")
    /\ UNCHANGED <<grants, lastId, op, user, found, log, overtaken>>

-----------------------------------------------------------------------------
Step(q) ==
    \/ BootCount(q) \/ Look(q) \/ Insert(q) \/ Refetch(q) \/ LogGrant(q)
    \/ Find(q) \/ Lock(q) \/ Count(q) \/ Delete(q) \/ LogRevoke(q)
    \/ IsAdmin(q) \/ IsLast(q) \/ Write(q) \/ LogWrite(q) \/ Activate(q)

\* Between requests the server waits; requests that wait for each other's locks
\* would be a deadlock.
Rest == (\A q \in Requests : pc[q] \in {"idle", "done"}) /\ UNCHANGED vars

Next ==
    \/ \E q \in Requests : Step(q) \/ \E o \in AllOps : Receive(q, o)
    \/ Rest

Spec == Init /\ [][Next]_vars

-----------------------------------------------------------------------------
(* Properties *)

\* What the row lock of a revocation is good for, however transactions are isolated:
\* of several revocations that found one grant a single one deletes it, and a
\* revocation leaves a superadmin behind unless another one deleted its own row
\* after this one had counted (revoke_superadmin).
RevocationLeavesOne == [][\A q \in Requests :
    pc[q] = "delete" /\ pc'[q] # "delete" =>
        found[q] \in grants /\ (grants' # {} \/ q \in overtaken)]_vars

\* The InstanceEvent trail accounts for every grant, although it is written after
\* the fact: for each user, rows granted and rows revoked, logged or about to be,
\* differ by the row there is.
Logged(u, kind) == Cardinality({e \in log : e.user = u /\ e.kind = kind})
Pending(u, step) == Cardinality({q \in Requests : pc[q] = step /\ user[q] = u})
Given(u) == Logged(u, "granted") + Pending(u, "logGrant")
                + (IF u \in Admins THEN 1 ELSE 0)
Taken(u) == Logged(u, "revoked") + Pending(u, "logRevoke")
AuditBalances == \A u \in Users :
    Given(u) = Taken(u) + (IF Holds(u) THEN 1 ELSE 0)

-----------------------------------------------------------------------------
(* What a docstring says, and the code does not do *)

\* admin_grants.py: "never leave zero admins"; the row lock keeps two revocations of
\* the last two from both proceeding, "which would leave the instance with zero
\* admins".  It does where transactions exclude each other.
GrantRemains == Admins # {} \/ lastId > 0 => grants # {}

=============================================================================
